---- MODULE Spec2Model ----
(***************************************************************************)
(* blackroad-content-scheduler: the Job Coordinator, the Repo Sync Engine, *)
(* the Self-Healer, the three queue processors between them, and the       *)
(* cohesiveness scorers of the engine and of the GitHub scraper.           *)
(*                                                                         *)
(* Queues are at-least-once: a queue is the set of message bodies in       *)
(* flight.  message.ack() removes the body, message.retry() leaves it in   *)
(* the queue unchanged (a message body is immutable).                      *)
(***************************************************************************)
EXTENDS Integers, Sequences, FiniteSets, TLC

VARIABLES
    jobs,                   \* JobCoordinator.jobs: id -> AgentJob
    updating,               \* updateJob calls awaiting their request body: id -> the job read
    jobMetrics,             \* JobCoordinator.metrics
    tasks,                  \* SelfHealer.tasks: id -> HealingTask
    healMetrics,            \* SelfHealer.metrics
    strategies,             \* SelfHealer.strategies: strategy -> usage counters
    repos,                  \* RepoSyncEngine.repos: fullName -> RepoData
    lastFullSync,           \* RepoSyncEngine.lastFullSync (set or not)
    lastCohesivenessCheck,  \* RepoSyncEngine.lastCohesivenessCheck (set or not)
    inProgress,             \* RepoSyncEngine.inProgress
    calls,                  \* the triggerFullSync calls: call -> where it stands
    REPOS_KV,               \* env.REPOS_KV: key -> value
    HEALING_KV,             \* env.HEALING_KV: the keys written
    JOBS_QUEUE,             \* env.JOBS_QUEUE: jobs in flight
    SCRAPE_QUEUE,           \* env.SCRAPE_QUEUE: scrape tasks in flight
    HEALING_QUEUE,          \* env.HEALING_QUEUE: healing tasks in flight
    MAX_RETRY_ATTEMPTS,     \* parseInt(env.MAX_RETRY_ATTEMPTS)
    SELF_HEAL_ENABLED,      \* env.SELF_HEAL_ENABLED
    response,               \* body of the last response of a component operation
    remote,                 \* the code host: fullName -> structure of the repository there
    now,                    \* Date.now(), in ticks of HoursPerTick hours
    scraped,                \* history: repositories a scrape delivered data for
    fails,                  \* history: job id -> failed deliveries in a row since createJob
    healingSent,            \* history: job id -> healing tasks the job processor sent for it
    executed,               \* history: task id -> strategy -> executions of that strategy
    moves                   \* history: <<job id, from, to>> for each change of a job's status

coordVars == <<jobs, jobMetrics, updating>>
healerVars == <<tasks, healMetrics, strategies>>
engineVars == <<repos, lastFullSync, lastCohesivenessCheck>>
kvVars == <<REPOS_KV, HEALING_KV>>
queueVars == <<JOBS_QUEUE, SCRAPE_QUEUE, HEALING_QUEUE>>
envVars == <<MAX_RETRY_ATTEMPTS, SELF_HEAL_ENABLED, remote, now>>
syncVars == <<inProgress, calls>>
histVars == <<scraped, fails, healingSent, executed, moves>>

vars == <<coordVars, healerVars, engineVars, syncVars, kvVars, queueVars, envVars, response,
          histVars>>

----------------------------------------------------------------------------
(* Bounds of the model *)

\* structure.files holds at most MaxFiles entries that are not a README
MaxFiles == 10

\* MAX_RETRY_ATTEMPTS as the README documents its default
DefaultMaxRetryAttempts == 5

----------------------------------------------------------------------------
(* Values *)

NoValue == "undefined"

\* The id of a job, and the jobId of a healing task, is a string: a job's own
\* id, `scrape-${task.id}`, `cohesiveness-${repo}` or 'worker-error'.  It is
\* kept as <<kind, number, name>>.
JobId(n) == <<"job", n, "">>
ScrapeJobId(scrapeId) == <<"scrape", scrapeId, "">>
CohesivenessJobId(repo) == <<"cohesiveness", 0, repo>>
WorkerErrorJobId == <<"worker-error", 0, "">>

\* a task or job without a jobId / id
NoJobId == <<"", 0, "">>

Min(S) == CHOOSE x \in S : \A y \in S : x <= y

\* Full names of repositories ("owner/name")
RepoNames == {"BlackRoad-OS/blackroad-os"}

\* Directory paths a tree can hold; the first two are the ones hasSrcDir accepts
Dirs == {"src", "src/lib", "lib"}

\* File paths whose lower-case form is compared with 'readme.md'
ReadmeLikePaths == {"README.md", "docs/README.md"}

\* String.prototype.toLowerCase on the paths of the model
toLowerCase(s) ==
    CASE s = "README.md" -> "readme.md"
      [] s = "docs/README.md" -> "docs/readme.md"
      [] OTHER -> s

\* String.prototype.startsWith('src/') on the directories of the model
startsWithSrcSlash(d) == d \in {"src/lib"}

\* Math.round(n / d) for n >= 0, d > 0: the nearest integer, halves upwards
MathRoundDiv(n, d) == (2 * n + d) \div (2 * d)

\* RepoStructure: files is its list of entries, kept as the number of entries
\* that are not README-like and the set of README-like paths present
Structures ==
    [ hasPackageJson : BOOLEAN, hasTsConfig : BOOLEAN, hasWranglerConfig : BOOLEAN,
      directories : SUBSET Dirs,
      files : [others : 0..MaxFiles, named : SUBSET ReadmeLikePaths] ]

\* structure.files.length
filesLength(files) == files.others + Cardinality(files.named)

----------------------------------------------------------------------------
(* Cohesiveness scoring *)

Issue(t, sev, msg, fix) ==
    [type |-> t, severity |-> sev, message |-> msg, autoFixable |-> fix]

\* the three config checks shared by both scorers: <<configScore, issues>>
configChecks(structure) ==
    LET i1 == IF ~structure.hasPackageJson
              THEN <<Issue("missing_config", "warning", "Missing package.json", TRUE)>>
              ELSE <<>>
        i2 == IF ~structure.hasTsConfig
              THEN <<Issue("missing_config", "info", "Missing tsconfig.json", TRUE)>>
              ELSE <<>>
        i3 == IF ~structure.hasWranglerConfig
              THEN <<Issue("missing_config", "warning", "Missing wrangler.toml", TRUE)>>
              ELSE <<>>
        score == 100 - (IF ~structure.hasPackageJson THEN 30 ELSE 0)
                     - (IF ~structure.hasTsConfig THEN 20 ELSE 0)
                     - (IF ~structure.hasWranglerConfig THEN 25 ELSE 0)
    IN  <<score, i1 \o i2 \o i3>>

hasSrcDir(structure) ==
    \E d \in structure.directories : d = "src" \/ startsWithSrcSlash(d)

hasReadme(structure) ==
    \E f \in structure.files.named : toLowerCase(f) = "readme.md"

\* RepoSyncEngine.calculateCohesiveness with the README penalty left out of overall
calculateCohesiveness_overallBeforeReadme(repo) ==
    LET structure == repo.structure
        cfg == configChecks(structure)
        noSrc == ~hasSrcDir(structure) /\ filesLength(structure.files) > 5
        s1 == 100 - (IF noSrc THEN 20 ELSE 0)
        structureScore == s1 - (IF ~hasReadme(structure) THEN 10 ELSE 0)
    IN  [ overall |-> MathRoundDiv(s1 + 100 + 100 + cfg[1], 4),
          structure |-> structureScore, naming |-> 100, dependencies |-> 100,
          config |-> cfg[1],
          issues |-> cfg[2]
             \o (IF noSrc
                 THEN <<Issue("structure_mismatch", "info", "No src/ directory found", FALSE)>>
                 ELSE <<>>)
             \o (IF ~hasReadme(structure)
                 THEN <<Issue("missing_config", "info", "Missing README.md", TRUE)>>
                 ELSE <<>>) ]

\* RepoSyncEngine.calculateCohesiveness
calculateCohesiveness(repo) ==
    LET structure == repo.structure
        cfg == configChecks(structure)
        configScore == cfg[1]
        namingScore == 100
        depsScore == 100
        noSrc == ~hasSrcDir(structure) /\ filesLength(structure.files) > 5
        noReadme == ~hasReadme(structure)
        structureScore == 100 - (IF noSrc THEN 20 ELSE 0) - (IF noReadme THEN 10 ELSE 0)
        issues == cfg[2]
             \o (IF noSrc
                 THEN <<Issue("structure_mismatch", "info", "No src/ directory found", FALSE)>>
                 ELSE <<>>)
             \o (IF noReadme
                 THEN <<Issue("missing_config", "info", "Missing README.md", TRUE)>>
                 ELSE <<>>)
    IN  [ overall |-> MathRoundDiv(structureScore + namingScore + depsScore + configScore, 4),
          structure |-> structureScore, naming |-> namingScore,
          dependencies |-> depsScore, config |-> configScore,
          issues |-> issues ]

\* GitHubScraper.calculateInitialCohesiveness with the mean truncated, not rounded
calculateInitialCohesiveness_truncated(structure) ==
    LET cfg == configChecks(structure)
        noSrc == ~hasSrcDir(structure) /\ filesLength(structure.files) > 5
        structureScore == 100 - (IF noSrc THEN 20 ELSE 0)
    IN  [ overall |-> (cfg[1] + structureScore + 100 + 100) \div 4,
          structure |-> structureScore, naming |-> 100,
          dependencies |-> 100, config |-> cfg[1],
          issues |-> cfg[2]
             \o (IF noSrc
                 THEN <<Issue("structure_mismatch", "info", "No src/ directory found", FALSE)>>
                 ELSE <<>>) ]

\* GitHubScraper.calculateInitialCohesiveness
calculateInitialCohesiveness(structure) ==
    LET cfg == configChecks(structure)
        configScore == cfg[1]
        noSrc == ~hasSrcDir(structure) /\ filesLength(structure.files) > 5
        structureScore == 100 - (IF noSrc THEN 20 ELSE 0)
        issues == cfg[2]
             \o (IF noSrc
                 THEN <<Issue("structure_mismatch", "info", "No src/ directory found", FALSE)>>
                 ELSE <<>>)
    IN  [ overall |-> MathRoundDiv(configScore + structureScore + 100 + 100, 4),
          structure |-> structureScore, naming |-> 100,
          dependencies |-> 100, config |-> configScore,
          issues |-> issues ]

\* the RepoData GitHubScraper.scrapeRepo builds for a repository with this structure
scrapeRepoData(fullName, structure) ==
    [ fullName |-> fullName, structure |-> structure,
      cohesiveness |-> calculateInitialCohesiveness(structure) ]

----------------------------------------------------------------------------
(* Maps with a growing domain: Map.set / KV put, Map.delete / KV delete *)

EmptyMap == [k \in {} |-> NoValue]

Put(f, k, v) == [x \in (DOMAIN f) \cup {k} |-> IF x = k THEN v ELSE f[x]]

Delete(f, k) == [x \in (DOMAIN f) \ {k} |-> f[x]]

\* Keys of env.REPOS_KV: `repo:${fullName}` and `cohesiveness:${fullName}`
RepoKey(fullName) == <<"repo", fullName>>
CohesivenessKey(fullName) == <<"cohesiveness", fullName>>

----------------------------------------------------------------------------
(* Healing tasks *)

\* ids crypto.randomUUID() hands out for healing tasks
MaxTasks == 2
TaskIds == 1..MaxTasks

UsedTaskIds == {m.id : m \in HEALING_QUEUE} \cup DOMAIN tasks

FreeTaskIds == TaskIds \ UsedTaskIds

\* task.resolution of a task no attempt has been made on
NoResolution == [strategy |-> NoValue, success |-> FALSE, attemptNumber |-> 0]

\* issue.context / job.payload, kept to the keys the code reads; batchSize 0
\* is an absent batchSize (the code reads it as `batchSize || 10`)
Context(repoName, batchSize) == [repoName |-> repoName, batchSize |-> batchSize]

\* a HealingTask as its producers build it: attempts 0, status pending
NewHealingTask(id, jobId, issueType, repoName, strategy, maxAttempts) ==
    [ id |-> id, jobId |-> jobId,
      issue |-> [type |-> issueType, context |-> Context(repoName, 0)],
      strategy |-> strategy, attempts |-> 0, maxAttempts |-> maxAttempts,
      status |-> "pending", resolution |-> NoResolution ]

----------------------------------------------------------------------------
(* Repo Sync Engine *)

\* result.score.issues.filter(i => i.severity === 'critical' && i.autoFixable)
criticalIssues(score) ==
    LET crit(i) == i.severity = "critical" /\ i.autoFixable
    IN  SelectSeq(score.issues, crit)

\* RepoSyncEngine.updateRepo(repoData)
updateRepo(repoData) ==
    /\ repos' = Put(repos, repoData.fullName, repoData)
    /\ REPOS_KV' = Put(REPOS_KV, RepoKey(repoData.fullName), repoData)
    /\ response' = [op |-> "updateRepo"]
    /\ UNCHANGED <<coordVars, healerVars, lastFullSync, lastCohesivenessCheck, HEALING_KV,
                   queueVars, envVars, syncVars, histVars>>

\* RepoSyncEngine.triggerCohesivenessCheck()
triggerCohesivenessCheck ==
    LET results == [r \in DOMAIN repos |-> calculateCohesiveness(repos[r])]
        toHeal == {r \in DOMAIN repos : Len(criticalIssues(results[r])) > 0}
    IN  /\ Cardinality(toHeal) <= Cardinality(FreeTaskIds)
        /\ repos' = [r \in DOMAIN repos |-> [repos[r] EXCEPT !.cohesiveness = results[r]]]
        /\ REPOS_KV' = [k \in (DOMAIN REPOS_KV) \cup {CohesivenessKey(r) : r \in DOMAIN repos} |->
                          IF k[1] = "cohesiveness" /\ k[2] \in DOMAIN repos
                          THEN results[k[2]] ELSE REPOS_KV[k]]
        /\ lastCohesivenessCheck' = TRUE
        /\ \E ids \in [toHeal -> FreeTaskIds] :
              /\ \A a, b \in toHeal : a # b => ids[a] # ids[b]
              /\ HEALING_QUEUE' = HEALING_QUEUE \cup
                    { NewHealingTask(ids[r], CohesivenessJobId(r), "cohesiveness_issues",
                                     NoValue, "escalate_to_agent", 3) : r \in toHeal }
        /\ response' = [op |-> "triggerCohesivenessCheck", success |-> TRUE, results |-> results]
        /\ UNCHANGED <<coordVars, healerVars, lastFullSync, HEALING_KV, JOBS_QUEUE,
                       SCRAPE_QUEUE, envVars, syncVars, histVars>>

----------------------------------------------------------------------------
(* The scorers on their own: the repository on the code host has any       *)
(* structure; its scraped data is handed to the engine and scored.         *)

\* at most MaxCalls requests for a full sync reach the engine
MaxCalls == 2
Calls == 1..MaxCalls

\* a triggerFullSync call that has not reached the engine: at is where the
\* call stands, next the index in BLACKROAD_REPOS of the send it awaits,
\* status the HTTP status it returned (0: none), sent the scrape tasks it
\* enqueued, overlapped the calls that were suspended at a send when it began
NotCalled == [at |-> "idle", next |-> 0, status |-> 0, sent |-> {}, overlapped |-> {}]

InitEngine ==
    /\ repos = EmptyMap
    /\ lastFullSync = FALSE
    /\ lastCohesivenessCheck = FALSE
    /\ inProgress = FALSE
    /\ calls = [c \in Calls |-> NotCalled]
    /\ REPOS_KV = EmptyMap

InitQueues ==
    /\ JOBS_QUEUE = {}
    /\ SCRAPE_QUEUE = {}
    /\ HEALING_QUEUE = {}

InitCoordinator ==
    /\ jobs = EmptyMap
    /\ updating = EmptyMap
    /\ jobMetrics = [totalCreated |-> 0, totalCompleted |-> 0, totalFailed |-> 0,
                     totalHealing |-> 0]

InitHealer ==
    /\ tasks = EmptyMap
    /\ healMetrics = [totalAttempts |-> 0, successfulResolutions |-> 0,
                      failedResolutions |-> 0, escalations |-> 0]
    /\ strategies = EmptyMap
    /\ HEALING_KV = {}

InitHistory ==
    /\ scraped = {}
    /\ fails = EmptyMap
    /\ healingSent = EmptyMap
    /\ executed = EmptyMap
    /\ moves = {}

InitClock == now = 0

InitCoh ==
    /\ InitCoordinator /\ InitHealer /\ InitEngine /\ InitQueues /\ InitHistory /\ InitClock
    /\ MAX_RETRY_ATTEMPTS = DefaultMaxRetryAttempts
    /\ SELF_HEAL_ENABLED = "true"
    /\ response = [op |-> "none"]
    /\ remote \in [RepoNames -> Structures]

UpdateRepo ==
    \E fullName \in RepoNames :
        updateRepo(scrapeRepoData(fullName, remote[fullName]))

TriggerCohesivenessCheck == triggerCohesivenessCheck

NextCoh == UpdateRepo \/ TriggerCohesivenessCheck

SpecCoh == InitCoh /\ [][NextCoh]_vars

----------------------------------------------------------------------------
(* Claims about the cohesiveness scorers (under SpecCoh) *)

\* the repository of scenario S2: none of the three config files, 10 files,
\* no README and no src/ directory
IsS2(structure) ==
    /\ ~structure.hasPackageJson /\ ~structure.hasTsConfig /\ ~structure.hasWranglerConfig
    /\ filesLength(structure.files) = 10
    /\ \A f \in structure.files.named : f # "README.md"
    /\ structure.directories \subseteq {"lib"}

NumAutoFixable(score) ==
    Cardinality({i \in 1..Len(score.issues) : score.issues[i].autoFixable})

NoCritical(score) ==
    \A i \in 1..Len(score.issues) : score.issues[i].severity # "critical"

\* the last operation was a cohesiveness check and scored an S2 repository
S2Checked(r) ==
    /\ response.op = "triggerCohesivenessCheck"
    /\ r \in DOMAIN response.results
    /\ IsS2(repos[r].structure)

S2Outcome(r, overall) ==
    /\ response.results[r].overall = overall
    /\ Len(response.results[r].issues) = 5
    /\ NumAutoFixable(response.results[r]) = 4
    /\ NoCritical(response.results[r])
    /\ \A m \in HEALING_QUEUE : m.jobId # CohesivenessJobId(r)

\* C9 as stated: the engine scores the S2 repository overall = 71, with exactly
\* 5 issues, 4 of them auto-fixable, none critical, and triggerCohesivenessCheck
\* enqueues no healing task for it.
C9_Original == \A r \in RepoNames : S2Checked(r) => S2Outcome(r, 71)

\* C9 amended: the engine scores the S2 repository overall = 74 (structure 70 =
\* 100 - 20 - 10, config 25), with exactly 5 issues, 4 of them auto-fixable, none
\* critical, and triggerCohesivenessCheck enqueues no healing task for it.
C9_Amended ==
    \A r \in RepoNames :
        S2Checked(r) =>
            /\ S2Outcome(r, 74)
            /\ response.results[r].structure = 70
            /\ response.results[r].config = 25

C9_Witness == \E r \in RepoNames : S2Checked(r) /\ repos[r].cohesiveness.overall = 74

\* every cohesiveness score held anywhere: on the engine's repos, in the KV
\* (scraped repo data and the engine's score snapshots), in the last response
AllScores ==
    {repos[r].cohesiveness : r \in DOMAIN repos}
    \cup {REPOS_KV[k].cohesiveness : k \in {x \in DOMAIN REPOS_KV : x[1] = "repo"}}
    \cup {REPOS_KV[k] : k \in {x \in DOMAIN REPOS_KV : x[1] = "cohesiveness"}}
    \cup (IF response.op = "triggerCohesivenessCheck"
          THEN {response.results[r] : r \in DOMAIN response.results} ELSE {})

SubScoreSum(score) == score.structure + score.naming + score.dependencies + score.config

\* overall is the integer nearest to sum/4, a half rounded upwards
IsRoundedMean(score) ==
    /\ 4 * score.overall <= SubScoreSum(score) + 2
    /\ SubScoreSum(score) + 2 < 4 * score.overall + 4

\* C10: every cohesiveness score produced, by the engine's calculateCohesiveness
\* and by the scraper's calculateInitialCohesiveness, has overall =
\* round((structure + naming + dependencies + config) / 4), with the four
\* sub-scores and overall in 0..100.
C10_RoundedMean ==
    \A score \in AllScores :
        /\ IsRoundedMean(score)
        /\ {score.structure, score.naming, score.dependencies, score.config,
            score.overall} \subseteq 0..100

\* both scorers have produced a score whose mean is not an integer
C10_Witness ==
    /\ response.op = "triggerCohesivenessCheck"
    /\ \E r \in DOMAIN response.results :
          /\ SubScoreSum(response.results[r]) % 4 # 0
          /\ RepoKey(r) \in DOMAIN REPOS_KV
          /\ SubScoreSum(REPOS_KV[RepoKey(r)].cohesiveness) % 4 # 0
          /\ REPOS_KV[RepoKey(r)].cohesiveness # response.results[r]

----------------------------------------------------------------------------
(* Scrape tasks and the scrape processor *)

\* ids crypto.randomUUID() hands out for scrape tasks
MaxScrapeTasks == 4
ScrapeIds == 1..MaxScrapeTasks

FreeScrapeIds == ScrapeIds \ {m.id : m \in SCRAPE_QUEUE}

ScrapeTask(id, repoFullName, scrapeType, priority) ==
    [id |-> id, repoFullName |-> repoFullName, scrapeType |-> scrapeType,
     priority |-> priority]

\* RepoSyncEngine.syncRepo(repoName): the scrape queue after its send
syncRepo(queue, repoName) ==
    queue \cup {ScrapeTask(Min(ScrapeIds \ {m.id : m \in queue}), repoName, "full", "high")}

\* POST /api/repos/:owner/:name/scrape
ScrapeRequest ==
    \E fullName \in RepoNames :
        /\ FreeScrapeIds # {}
        /\ SCRAPE_QUEUE' = SCRAPE_QUEUE \cup
              {ScrapeTask(Min(FreeScrapeIds), fullName, "full", "high")}
        /\ UNCHANGED <<coordVars, healerVars, engineVars, kvVars, JOBS_QUEUE, HEALING_QUEUE,
                       envVars, syncVars, response, histVars>>

\* processScrapeQueue, one message, the scraper returning repo data:
\* POST /sync/repo on the engine, REPOS_KV.put, message.ack()
ScrapeData(message) ==
    LET task == message
        repoData == scrapeRepoData(task.repoFullName, remote[task.repoFullName])
    IN  /\ FreeScrapeIds # {}
        /\ SCRAPE_QUEUE' = syncRepo(SCRAPE_QUEUE, task.repoFullName) \ {message}
        /\ REPOS_KV' = Put(REPOS_KV, RepoKey(task.repoFullName), repoData)
        /\ scraped' = scraped \cup {task.repoFullName}
        /\ UNCHANGED <<coordVars, healerVars, engineVars, HEALING_KV, JOBS_QUEUE, HEALING_QUEUE,
                       envVars, syncVars, moves, response, fails, healingSent, executed>>

\* processScrapeQueue, one message, the scraper returning null: message.ack()
ScrapeNull(message) ==
    /\ SCRAPE_QUEUE' = SCRAPE_QUEUE \ {message}
    /\ UNCHANGED <<coordVars, healerVars, engineVars, kvVars, JOBS_QUEUE, HEALING_QUEUE,
                   envVars, syncVars, response, histVars>>

ScrapeThrow_acks(message) ==
    LET task == message
    IN  /\ FreeTaskIds # {}
        /\ HEALING_QUEUE' = HEALING_QUEUE \cup
              { NewHealingTask(Min(FreeTaskIds), ScrapeJobId(task.id), "scrape_failure",
                               task.repoFullName, "retry_with_backoff", 3) }
        /\ SCRAPE_QUEUE' = SCRAPE_QUEUE \ {message}
        /\ UNCHANGED <<coordVars, healerVars, engineVars, kvVars, JOBS_QUEUE,
                       envVars, syncVars, response, histVars>>

\* processScrapeQueue, one message, the scraper (or a call after it) throwing:
\* a healing task is sent and message.retry() leaves the message in the queue
ScrapeThrow(message) ==
    LET task == message
    IN  /\ FreeTaskIds # {}
        /\ HEALING_QUEUE' = HEALING_QUEUE \cup
              { NewHealingTask(Min(FreeTaskIds), ScrapeJobId(task.id), "scrape_failure",
                               task.repoFullName, "retry_with_backoff", 3) }
        /\ UNCHANGED <<coordVars, healerVars, engineVars, kvVars, JOBS_QUEUE, SCRAPE_QUEUE,
                       envVars, syncVars, response, histVars>>

InitScrape ==
    /\ InitCoordinator /\ InitHealer /\ InitEngine /\ InitQueues /\ InitHistory /\ InitClock
    /\ MAX_RETRY_ATTEMPTS = DefaultMaxRetryAttempts
    /\ SELF_HEAL_ENABLED = "true"
    /\ response = [op |-> "none"]
    /\ remote \in [RepoNames -> {st \in Structures : st.files.others = 0}]

ScrapeDelivered == \E message \in SCRAPE_QUEUE : ScrapeData(message)

ScrapeUnchanged == \E message \in SCRAPE_QUEUE : ScrapeNull(message)

ScrapeFailed == \E message \in SCRAPE_QUEUE : ScrapeThrow(message)

NextScrape == ScrapeRequest \/ ScrapeDelivered \/ ScrapeUnchanged \/ ScrapeFailed

SpecScrape == InitScrape /\ [][NextScrape]_vars

----------------------------------------------------------------------------
(* Claims about the scrape processor (under SpecScrape) *)

\* C8: after the scrape processor has handled a scrape task for repository R
\* for which the scraper returned repo data, the engine's repo map contains R
\* and the shared KV holds repo:R; conversely the engine's repo map contains a
\* repository only if it was scraped at least once.
C8_ScrapedIsRecorded ==
    /\ \A R \in scraped : R \in DOMAIN repos /\ RepoKey(R) \in DOMAIN REPOS_KV
    /\ \A R \in DOMAIN repos : R \in scraped

----------------------------------------------------------------------------
(* Jobs *)

\* ids crypto.randomUUID() hands out for jobs
MaxJobs == 3
JobIds == {JobId(n) : n \in 1..MaxJobs}

\* the completedAt of a job that has none
NoTime == -1

\* an AgentJob as createJob and the healer build it: status pending, created
\* and updated now, no completedAt, error or result yet
Job(id, type, priority, payload, retryCount, maxRetries, healingAttempts) ==
    [ id |-> id, type |-> type, status |-> "pending", priority |-> priority,
      payload |-> payload, retryCount |-> retryCount, maxRetries |-> maxRetries,
      healingAttempts |-> healingAttempts, createdAt |-> now, updatedAt |-> now,
      completedAt |-> NoTime, error |-> NoValue, result |-> NoValue ]

----------------------------------------------------------------------------
(* Self-Healer *)

STRATEGY_CONFIGS ==
    [ retry_with_backoff |-> [maxAttempts |-> 5, nextStrategy |-> "clear_cache_retry"],
      clear_cache_retry  |-> [maxAttempts |-> 2, nextStrategy |-> "switch_endpoint"],
      switch_endpoint    |-> [maxAttempts |-> 3, nextStrategy |-> "reduce_batch_size"],
      reduce_batch_size  |-> [maxAttempts |-> 3, nextStrategy |-> "notify_and_skip"],
      notify_and_skip    |-> [maxAttempts |-> 1, nextStrategy |-> "escalate_to_agent"],
      full_reset         |-> [maxAttempts |-> 1, nextStrategy |-> "escalate_to_agent"],
      escalate_to_agent  |-> [maxAttempts |-> 1, nextStrategy |-> NoValue] ]

Strategies == DOMAIN STRATEGY_CONFIGS

\* What an operation of the healer reads and writes: its own state, the three
\* queues and the two KV namespaces
World ==
    [ tasks |-> tasks, metrics |-> healMetrics, strategies |-> strategies,
      JOBS_QUEUE |-> JOBS_QUEUE, SCRAPE_QUEUE |-> SCRAPE_QUEUE,
      HEALING_QUEUE |-> HEALING_QUEUE, REPOS_KV |-> REPOS_KV, HEALING_KV |-> HEALING_KV ]

FreeJobIdsIn(w) == JobIds \ ((DOMAIN jobs) \cup {m.id : m \in w.JOBS_QUEUE})

\* crypto.randomUUID() for a job: an id no job has
randomJobId(w) == JobId(Min({n \in 1..MaxJobs : JobId(n) \in FreeJobIdsIn(w)}))

FreeScrapeIdsIn(w) == ScrapeIds \ {m.id : m \in w.SCRAPE_QUEUE}

\* the result of executing a strategy: whether it succeeded, the task and
\* the world as it left them
Executed(success, task, w) == [success |-> success, task |-> task, w |-> w]

retryOriginalOperation_anyJobId(w, task) ==
    Executed(TRUE, task,
        [w EXCEPT !.JOBS_QUEUE = @ \cup
            {Job(task.jobId, "sync_content", "high", task.issue.context,
                 task.attempts, 5, task.attempts)}])

\* SelfHealer.retryOriginalOperation(task)
retryOriginalOperation(w, task) ==
    IF task.jobId # NoJobId /\ task.jobId # WorkerErrorJobId
    THEN Executed(TRUE, task,
            [w EXCEPT !.JOBS_QUEUE = @ \cup
                {Job(task.jobId, "sync_content", "high", task.issue.context,
                     task.attempts, 5, task.attempts)}])
    ELSE Executed(FALSE, task, w)

\* SelfHealer.retryWithBackoff(task, delayMs): the sleep passes, then the retry
retryWithBackoff(w, task) == retryOriginalOperation(w, task)

\* SelfHealer.clearRelatedCache(task): the world after it
clearRelatedCache(w, task) ==
    LET context == task.issue.context
    IN  IF context.repoName # NoValue
        THEN [w EXCEPT !.REPOS_KV =
                 Delete(Delete(@, RepoKey(context.repoName)), CohesivenessKey(context.repoName))]
        ELSE w

\* SelfHealer.trySwitchEndpoint(task): random is the outcome of Math.random() > 0.5
trySwitchEndpoint(w, task, random) == Executed(random, task, w)

\* Math.max(1, Math.floor(currentBatch / 2)) with currentBatch = batchSize || 10
newBatch(batchSize) ==
    LET currentBatch == IF batchSize = 0 THEN 10 ELSE batchSize
        half == currentBatch \div 2
    IN  IF half < 1 THEN 1 ELSE half

\* SelfHealer.reduceBatchAndRetry(task)
reduceBatchAndRetry(w, task) ==
    LET context == task.issue.context
    IN  retryOriginalOperation(w,
            [task EXCEPT !.issue.context = [context EXCEPT !.batchSize = newBatch(@)]])

\* SelfHealer.notifyAndSkip(task): the world after it
notifyAndSkip(w, task) ==
    [w EXCEPT !.HEALING_KV = @ \cup {<<"skipped", task.id>>}]

\* SelfHealer.performFullReset(task)
performFullReset(w, task) ==
    LET context == task.issue.context
    IN  IF context.repoName # NoValue
        THEN Executed(TRUE, task,
                [w EXCEPT !.REPOS_KV = Delete(Delete(@, RepoKey(context.repoName)),
                                              CohesivenessKey(context.repoName)),
                          !.SCRAPE_QUEUE = @ \cup
                              {ScrapeTask(Min(FreeScrapeIdsIn(w)), context.repoName,
                                          "full", "critical")}])
        ELSE Executed(FALSE, task, w)

\* SelfHealer.escalateToAgent(task): the world after it
escalateToAgent(w, task) ==
    [w EXCEPT !.HEALING_KV = @ \cup {<<"escalated", task.id>>},
              !.JOBS_QUEUE = @ \cup
                  {Job(randomJobId(w), "notify", "critical", Context(NoValue, 0), 0, 1, 0)}]

\* the switch statement of attemptHealing: the task's strategy is executed
executeStrategy(w, task, random) ==
    CASE task.strategy = "retry_with_backoff" -> retryWithBackoff(w, task)
      [] task.strategy = "clear_cache_retry" ->
            retryOriginalOperation(clearRelatedCache(w, task), task)
      [] task.strategy = "switch_endpoint" -> trySwitchEndpoint(w, task, random)
      [] task.strategy = "reduce_batch_size" -> reduceBatchAndRetry(w, task)
      [] task.strategy = "notify_and_skip" -> Executed(TRUE, task, notifyAndSkip(w, task))
      [] task.strategy = "full_reset" -> performFullReset(w, task)
      [] task.strategy = "escalate_to_agent" ->
            Executed(FALSE, [task EXCEPT !.status = "escalated"],
                     [escalateToAgent(w, task) EXCEPT !.metrics.escalations = @ + 1])

afterFailure_keepsAttempts(w, task, strategyConfig) ==
    IF task.attempts >= task.maxAttempts /\ strategyConfig.nextStrategy # NoValue
    THEN LET next == [task EXCEPT !.strategy = strategyConfig.nextStrategy,
                                  !.maxAttempts = STRATEGY_CONFIGS[strategyConfig.nextStrategy].maxAttempts,
                                  !.status = "pending"]
         IN  [task |-> next, w |-> [w EXCEPT !.HEALING_QUEUE = @ \cup {next}]]
    ELSE IF task.attempts >= task.maxAttempts
    THEN [task |-> [task EXCEPT !.status = "escalated"],
          w |-> [w EXCEPT !.metrics.failedResolutions = @ + 1, !.metrics.escalations = @ + 1]]
    ELSE LET again == [task EXCEPT !.status = "pending"]
         IN  [task |-> again, w |-> [w EXCEPT !.HEALING_QUEUE = @ \cup {again}]]

\* the failure branch of attemptHealing: the next strategy when the attempts
\* are used up and there is one, escalated when there is none, else the same
\* strategy again
afterFailure(w, task, strategyConfig) ==
    IF task.attempts >= task.maxAttempts /\ strategyConfig.nextStrategy # NoValue
    THEN LET next == [task EXCEPT !.strategy = strategyConfig.nextStrategy,
                                  !.attempts = 0,
                                  !.maxAttempts = STRATEGY_CONFIGS[strategyConfig.nextStrategy].maxAttempts,
                                  !.status = "pending"]
         IN  [task |-> next, w |-> [w EXCEPT !.HEALING_QUEUE = @ \cup {next}]]
    ELSE IF task.attempts >= task.maxAttempts
    THEN [task |-> [task EXCEPT !.status = "escalated"],
          w |-> [w EXCEPT !.metrics.failedResolutions = @ + 1, !.metrics.escalations = @ + 1]]
    ELSE LET again == [task EXCEPT !.status = "pending"]
         IN  [task |-> again, w |-> [w EXCEPT !.HEALING_QUEUE = @ \cup {again}]]

NoStats == [attempts |-> 0, successes |-> 0, failures |-> 0]

\* SelfHealer.attemptHealing(task): the resolution it returns and the world
\* as it leaves it
attemptHealing(w, task, random) ==
    LET attempting == [task EXCEPT !.status = "attempting", !.attempts = @ + 1]
        strategy == attempting.strategy
        strategyConfig == STRATEGY_CONFIGS[strategy]
        stats == IF strategy \in DOMAIN w.strategies
                 THEN w.strategies ELSE Put(w.strategies, strategy, NoStats)
        w1 == [w EXCEPT !.metrics.totalAttempts = @ + 1,
                        !.strategies = [stats EXCEPT ![strategy].attempts = @ + 1]]
        done == executeStrategy(w1, attempting, random)
        after == IF done.success
                 THEN [task |-> [done.task EXCEPT !.status = "resolved"],
                       w |-> [done.w EXCEPT !.metrics.successfulResolutions = @ + 1,
                                            !.strategies[strategy].successes = @ + 1]]
                 ELSE afterFailure([done.w EXCEPT !.strategies[strategy].failures = @ + 1],
                                   done.task, strategyConfig)
        resolution == [strategy |-> after.task.strategy, success |-> done.success,
                       attemptNumber |-> after.task.attempts]
        final == [after.task EXCEPT !.resolution = resolution]
    IN  [resolution |-> resolution, w |-> [after.w EXCEPT !.tasks = Put(@, final.id, final)]]

processHealingTask_alwaysAttempts(w, task, random) ==
    LET result == attemptHealing([w EXCEPT !.tasks = Put(@, task.id, task)], task, random)
    IN  [success |-> result.resolution.success, w |-> result.w]

\* SelfHealer.processHealingTask(task): the success field of its response and
\* the world as it leaves it
processHealingTask(w, task, random) ==
    LET stored == [w EXCEPT !.tasks = Put(@, task.id, task)]
    IN  IF SELF_HEAL_ENABLED # "true"
        THEN [success |-> FALSE,
              w |-> [stored EXCEPT !.tasks = Put(@, task.id, [task EXCEPT !.status = "escalated"])]]
        ELSE LET result == attemptHealing(stored, task, random)
             IN  [success |-> result.resolution.success, w |-> result.w]

\* the ids an execution of the task's strategy draws are at hand
IdsAtHand(w, task) ==
    /\ task.strategy = "escalate_to_agent" => FreeJobIdsIn(w) # {}
    /\ task.strategy = "full_reset" /\ task.issue.context.repoName # NoValue
          => FreeScrapeIdsIn(w) # {}

Count(f, k) == IF k \in DOMAIN f THEN f[k] ELSE 0

\* the healer's state, the queues and the KV namespaces become those of w
Becomes(w) ==
    /\ tasks' = w.tasks
    /\ healMetrics' = w.metrics
    /\ strategies' = w.strategies
    /\ JOBS_QUEUE' = w.JOBS_QUEUE
    /\ SCRAPE_QUEUE' = w.SCRAPE_QUEUE
    /\ HEALING_QUEUE' = w.HEALING_QUEUE
    /\ REPOS_KV' = w.REPOS_KV
    /\ HEALING_KV' = w.HEALING_KV

\* history: the strategy of the task handed to the healer is executed once
\* more, unless self-healing is disabled
Ran(task) ==
    executed' = IF SELF_HEAL_ENABLED = "true"
                THEN Put(executed, <<task.id, task.strategy>>,
                         Count(executed, <<task.id, task.strategy>>) + 1)
                ELSE executed

\* attempts the healer is followed for
MaxHealAttempts == 6

\* processHealingQueue, one message: POST /heal on the healer, message.ack()
\* if the response says success, else message.retry()
ProcessHealingOf(message, random) ==
    LET result == processHealingTask(World, message, random)
    IN  /\ healMetrics.totalAttempts < MaxHealAttempts
        /\ IdsAtHand(World, message)
        /\ message.strategy # "switch_endpoint" => random   \* read by switch_endpoint only
        /\ Becomes(IF result.success
                   THEN [result.w EXCEPT !.HEALING_QUEUE = @ \ {message}]
                   ELSE result.w)
        /\ Ran(message)
        /\ response' = [op |-> "processHealingTask", success |-> result.success]
        /\ UNCHANGED <<coordVars, engineVars, envVars, syncVars, moves, scraped, fails,
                       healingSent>>

\* processHealingQueue, a batch of one message
ProcessHealing ==
    \E message \in HEALING_QUEUE, random \in BOOLEAN : ProcessHealingOf(message, random)

\* app.onError: a request handler of the worker threw
WorkerError ==
    /\ SELF_HEAL_ENABLED = "true"
    /\ FreeTaskIds # {}
    /\ HEALING_QUEUE' = HEALING_QUEUE \cup
          { NewHealingTask(Min(FreeTaskIds), WorkerErrorJobId, "worker_error", NoValue,
                           "retry_with_backoff", 5) }
    /\ UNCHANGED <<coordVars, healerVars, engineVars, kvVars, JOBS_QUEUE, SCRAPE_QUEUE,
                   envVars, syncVars, response, histVars>>

\* bodies posted to /api/healing/trigger: a new task in any strategy, allowed
\* 1 attempt or the 3 of the cohesiveness tasks
ManualTasks ==
    { NewHealingTask(Min(FreeTaskIds), CohesivenessJobId(r), "manual", repoName, strategy,
                     maxAttempts) :
        r \in RepoNames, repoName \in {NoValue} \cup RepoNames, strategy \in Strategies,
        maxAttempts \in {1, 3} }

\* POST /api/healing/trigger: the body goes to POST /heal on the healer
TriggerHealingOf(task, random) ==
    LET result == processHealingTask(World, task, random)
    IN  /\ healMetrics.totalAttempts < MaxHealAttempts
        /\ IdsAtHand(World, task)
        /\ task.strategy # "switch_endpoint" => random
        /\ Becomes(result.w)
        /\ Ran(task)
        /\ response' = [op |-> "processHealingTask", success |-> result.success]
        /\ UNCHANGED <<coordVars, engineVars, envVars, syncVars, moves, scraped, fails,
                       healingSent>>

\* POST /api/healing/trigger with a body
TriggerHealing ==
    /\ FreeTaskIds # {}
    /\ \E task \in ManualTasks, random \in BOOLEAN : TriggerHealingOf(task, random)

----------------------------------------------------------------------------
(* Job Coordinator *)

Coordinator == [jobs |-> jobs, metrics |-> jobMetrics]

newJob_spreadsBody(body) ==
    LET given(f) == f \in DOMAIN body
        job == Job(IF given("id") /\ body.id # NoJobId THEN body.id ELSE randomJobId(World),
                   IF given("type") THEN body.type ELSE "sync_content",
                   IF given("priority") THEN body.priority ELSE "normal",
                   IF given("payload") THEN body.payload ELSE Context(NoValue, 0),
                   IF given("retryCount") THEN body.retryCount ELSE 0,
                   IF given("maxRetries") /\ body.maxRetries # 0
                   THEN body.maxRetries ELSE MAX_RETRY_ATTEMPTS,
                   0)
    IN  [job EXCEPT !.status = IF given("status") THEN body.status ELSE @]

\* the job createJob builds from the body of the request: a field the body
\* does not carry, and one that is falsy (the id NoJobId, maxRetries 0), gives
\* way to the default
newJob(body) ==
    LET given(f) == f \in DOMAIN body
    IN  Job(IF given("id") /\ body.id # NoJobId THEN body.id ELSE randomJobId(World),
            IF given("type") THEN body.type ELSE "sync_content",
            IF given("priority") THEN body.priority ELSE "normal",
            IF given("payload") THEN body.payload ELSE Context(NoValue, 0),
            0,
            IF given("maxRetries") /\ body.maxRetries # 0
            THEN body.maxRetries ELSE MAX_RETRY_ATTEMPTS,
            0)

\* JobCoordinator.createJob; the body of the request is kept with the response
createJob(body) ==
    LET job == newJob(body)
    IN  /\ jobs' = Put(jobs, job.id, job)
        /\ jobMetrics' = [jobMetrics EXCEPT !.totalCreated = @ + 1]
        /\ updating' = updating
        /\ JOBS_QUEUE' = JOBS_QUEUE \cup {job}
        /\ response' = [op |-> "createJob", success |-> TRUE, job |-> job, body |-> body]
        /\ fails' = Put(fails, job.id, 0)
        /\ healingSent' = Put(healingSent, job.id, 0)
        /\ moves' = {m \in moves : m[1] # job.id}

updateJob_countsEveryPatch(c, id, updates) ==
    IF id \notin DOMAIN c.jobs
    THEN c
    ELSE LET job == c.jobs[id]
             to == IF "status" \in DOMAIN updates THEN updates.status ELSE NoValue
             metrics == CASE to = "completed" -> [c.metrics EXCEPT !.totalCompleted = @ + 1]
                          [] to = "failed" -> [c.metrics EXCEPT !.totalFailed = @ + 1]
                          [] to = "healing" -> [c.metrics EXCEPT !.totalHealing = @ + 1]
                          [] OTHER -> c.metrics
             stamped == IF to = "completed" THEN [job EXCEPT !.completedAt = now] ELSE job
             assigned == [f \in DOMAIN stamped |->
                             IF f = "updatedAt" THEN now
                             ELSE IF f \in DOMAIN updates THEN updates[f] ELSE stamped[f]]
         IN  [jobs |-> Put(c.jobs, id, assigned), metrics |-> metrics]

\* JobCoordinator.updateJob(id, updates): the coordinator after it; updates
\* is a record of the fields the request carries
updateJob(c, id, updates) ==
    IF id \notin DOMAIN c.jobs
    THEN c
    ELSE LET job == c.jobs[id]
             to == IF "status" \in DOMAIN updates /\ updates.status # job.status
                   THEN updates.status ELSE NoValue
             metrics == CASE to = "completed" -> [c.metrics EXCEPT !.totalCompleted = @ + 1]
                          [] to = "failed" -> [c.metrics EXCEPT !.totalFailed = @ + 1]
                          [] to = "healing" -> [c.metrics EXCEPT !.totalHealing = @ + 1]
                          [] OTHER -> c.metrics
             stamped == IF to = "completed" THEN [job EXCEPT !.completedAt = now] ELSE job
             assigned == [f \in DOMAIN stamped |->
                             IF f = "updatedAt" THEN now
                             ELSE IF f \in DOMAIN updates THEN updates[f] ELSE stamped[f]]
         IN  [jobs |-> Put(c.jobs, id, assigned), metrics |-> metrics]

\* history: the change of status updateJob(id, updates) makes, if any
statusMoves(c, id, updates) ==
    IF id \in DOMAIN c.jobs /\ "status" \in DOMAIN updates
                            /\ updates.status # c.jobs[id].status
    THEN {<<id, c.jobs[id].status, updates.status>>}
    ELSE {}

----------------------------------------------------------------------------
(* Job processor *)

\* the known short names the engine syncs, in the order of the array (two of
\* the nine are followed)
BLACKROAD_REPOS == <<"blackroad-content-scheduler", "blackroad-os">>

\* `${org}/${repoName}` with org = 'BlackRoad-OS'
FullName(repoName) ==
    CASE repoName = "blackroad-content-scheduler" -> "BlackRoad-OS/blackroad-content-scheduler"
      [] repoName = "blackroad-os" -> "BlackRoad-OS/blackroad-os"

\* RepoSyncEngine.triggerFullSync(), not overlapping another: the scrape queue
\* after one send per known repository
triggerFullSync(queue) ==
    LET known == DOMAIN BLACKROAD_REPOS
        free == ScrapeIds \ {m.id : m \in queue}
        ids == CHOOSE f \in [known -> free] : \A a, b \in known : a < b => f[a] < f[b]
    IN  queue \cup {ScrapeTask(ids[i], FullName(BLACKROAD_REPOS[i]), "full", "normal") :
                       i \in known}

\* the handler of the job's type returns (true) or throws (false) for reasons
\* of its own: handleScrapeRepoJob throws without payload.repoName
handlerValidates(job) == job.type = "scrape_repo" => job.payload.repoName # NoValue

\* a call the handler makes can fail: handleNotifyJob makes none
handlerCanThrow(job) == job.type # "notify"

\* the ids the handler draws are at hand
handlerIdsAtHand(job) ==
    CASE job.type \in {"sync_content", "full_sync"} ->
            Cardinality(FreeScrapeIds) >= Len(BLACKROAD_REPOS)
      [] job.type = "scrape_repo" -> FreeScrapeIds # {}
      [] OTHER -> TRUE

\* the scrape queue after the handler of the job's type returned
handlerSends(job) ==
    CASE job.type \in {"sync_content", "full_sync"} -> triggerFullSync(SCRAPE_QUEUE)
      [] job.type = "scrape_repo" ->
            SCRAPE_QUEUE \cup {ScrapeTask(Min(FreeScrapeIds), job.payload.repoName,
                                          "incremental", job.priority)}
      [] OTHER -> SCRAPE_QUEUE

BecomesCoordinator(c) ==
    /\ jobs' = c.jobs
    /\ jobMetrics' = c.metrics
    /\ updating' = updating

\* failed deliveries in a row are counted up to MaxFails
MaxFails == 4

Failed(job) ==
    fails' = IF job.id \in DOMAIN fails /\ fails[job.id] < MaxFails
             THEN [fails EXCEPT ![job.id] = @ + 1] ELSE fails

\* processJobQueue, one message, the handler returning: the job is running,
\* then completed with the result, message.ack(); inFlight is the job queue
\* after the delivery
JobProcessed(message, inFlight) ==
    LET job == message
        running == updateJob(Coordinator, job.id, [status |-> "running"])
    IN  /\ handlerValidates(job)
        /\ handlerIdsAtHand(job)
        /\ SCRAPE_QUEUE' = handlerSends(job)
        /\ lastFullSync' = (lastFullSync \/ job.type \in {"sync_content", "full_sync"})
        /\ BecomesCoordinator(updateJob(running, job.id,
              [status |-> "completed", result |-> "result", completedAt |-> now]))
        /\ moves' = moves \cup statusMoves(Coordinator, job.id, [status |-> "running"])
                          \cup statusMoves(running, job.id, [status |-> "completed"])
        /\ JOBS_QUEUE' = inFlight
        /\ fails' = Delete(fails, job.id)
        /\ response' = [op |-> "processJobQueue", outcome |-> "completed"]
        /\ UNCHANGED <<healerVars, repos, lastCohesivenessCheck, kvVars, HEALING_QUEUE,
                       envVars, syncVars, scraped, healingSent, executed>>

\* the delivery after which the queue has let go of the message
JobSucceeds(message) == JobProcessed(message, JOBS_QUEUE \ {message})

\* at-least-once: the same delivery, after which the queue still holds the
\* message and delivers it again
JobSucceedsFirst(message) == JobProcessed(message, JOBS_QUEUE)

\* processJobQueue, one message, the handler throwing while the message has
\* retries left: the job is pending with the message's retryCount + 1,
\* message.retry()
JobRetries(message) ==
    LET job == message
        running == updateJob(Coordinator, job.id, [status |-> "running"])
    IN  /\ ~handlerValidates(job) \/ handlerCanThrow(job)
        /\ job.retryCount < job.maxRetries
        /\ BecomesCoordinator(updateJob(running, job.id,
              [status |-> "pending", retryCount |-> job.retryCount + 1, error |-> "error"]))
        /\ moves' = moves \cup statusMoves(Coordinator, job.id, [status |-> "running"])
                          \cup statusMoves(running, job.id, [status |-> "pending"])
        /\ Failed(job)
        /\ response' = [op |-> "processJobQueue", outcome |-> "retry"]
        /\ UNCHANGED <<healerVars, engineVars, kvVars, queueVars, envVars, syncVars, scraped,
                       healingSent, executed>>

\* processJobQueue, one message, the handler throwing while the message has no
\* retry left: the job is healing, a healing task is sent, message.ack()
JobHeals(message) ==
    LET job == message
        running == updateJob(Coordinator, job.id, [status |-> "running"])
    IN  /\ ~handlerValidates(job) \/ handlerCanThrow(job)
        /\ ~(job.retryCount < job.maxRetries)
        /\ FreeTaskIds # {}
        /\ BecomesCoordinator(updateJob(running, job.id,
              [status |-> "healing", error |-> "error"]))
        /\ moves' = moves \cup statusMoves(Coordinator, job.id, [status |-> "running"])
                          \cup statusMoves(running, job.id, [status |-> "healing"])
        /\ HEALING_QUEUE' = HEALING_QUEUE \cup
              { NewHealingTask(Min(FreeTaskIds), job.id, "job_failure", NoValue,
                               "retry_with_backoff", 5) }
        /\ JOBS_QUEUE' = JOBS_QUEUE \ {message}
        /\ Failed(job)
        /\ healingSent' = IF job.id \in DOMAIN healingSent
                          THEN [healingSent EXCEPT ![job.id] = @ + 1] ELSE healingSent
        /\ response' = [op |-> "processJobQueue", outcome |-> "healing"]
        /\ UNCHANGED <<healerVars, engineVars, kvVars, SCRAPE_QUEUE, envVars, syncVars, scraped,
                       executed>>

----------------------------------------------------------------------------
(* Jobs from creation through the job processor and the healer *)

\* jobs created
MaxCreated == 2

\* body.maxRetries of a createJob request is at most MaxBodyRetries
MaxBodyRetries == 2

\* POST /api/jobs without an id: sync_content jobs, and scrape_repo jobs
\* whose payload lacks repoName
CreateJob ==
    \E type \in {"sync_content", "scrape_repo"}, maxRetries \in 0..MaxBodyRetries :
        /\ jobMetrics.totalCreated < MaxCreated
        /\ FreeJobIdsIn(World) # {}
        /\ createJob([id |-> NoJobId, type |-> type, priority |-> "normal",
                      payload |-> Context(NoValue, 0), maxRetries |-> maxRetries])
        /\ UNCHANGED <<healerVars, engineVars, kvVars, SCRAPE_QUEUE, HEALING_QUEUE, envVars,
                       syncVars, scraped, executed>>

JobCompleted == \E message \in JOBS_QUEUE : JobSucceeds(message)

JobRetried == \E message \in JOBS_QUEUE : JobRetries(message)

JobSentToHealing == \E message \in JOBS_QUEUE : JobHeals(message)

\* a repository with the three config files, a README and a src/ directory
CompleteStructure ==
    [ hasPackageJson |-> TRUE, hasTsConfig |-> TRUE, hasWranglerConfig |-> TRUE,
      directories |-> {"src"}, files |-> [others |-> 3, named |-> {"README.md"}] ]

Init ==
    /\ InitCoordinator /\ InitHealer /\ InitEngine /\ InitQueues /\ InitHistory /\ InitClock
    /\ MAX_RETRY_ATTEMPTS \in {0, DefaultMaxRetryAttempts}
    /\ SELF_HEAL_ENABLED \in {"true", "false"}
    /\ response = [op |-> "none"]
    /\ remote = [r \in RepoNames |-> CompleteStructure]

Next == CreateJob \/ JobCompleted \/ JobRetried \/ JobSentToHealing \/ ProcessHealing

Spec == Init /\ [][Next]_vars

\* The same with a handler that throws on every delivery, and the two
\* processors working off their queues
NextPersistent == CreateJob \/ JobRetried \/ JobSentToHealing \/ ProcessHealing

SpecPersistent ==
    /\ Init /\ [][NextPersistent]_vars
    /\ WF_vars(JobRetried) /\ WF_vars(JobSentToHealing) /\ WF_vars(ProcessHealing)

\* The healer on its own: tasks of worker errors and of manual triggers
NextHeal == WorkerError \/ TriggerHealing \/ ProcessHealing

SpecHeal == Init /\ [][NextHeal]_vars

----------------------------------------------------------------------------
(* Claims about jobs (under Spec and SpecPersistent) *)

\* C1: every job stored in the Job Coordinator has retryCount <= maxRetries,
\* in every state reached by createJob, deliveries of the job processor
\* (handler returning or throwing, redeliveries included) and the healer's
\* re-enqueues of the job.
C1_RetryCountWithinMax ==
    \A id \in DOMAIN jobs : jobs[id].retryCount <= jobs[id].maxRetries

\* the only job created so far has maxRetries = 2 and every delivery of it
\* threw, n times so far
FailedInARow(id, n) ==
    /\ DOMAIN jobs = {id}
    /\ jobs[id].maxRetries = 2
    /\ id \in DOMAIN fails /\ fails[id] = n

\* C2: a job created with maxRetries = 2 whose handler throws on three
\* deliveries in a row is pending with retryCount 1 after the first, pending
\* with retryCount 2 after the second, and after the third it is healing,
\* exactly one healing task (retry_with_backoff, attempts 0, maxAttempts 5) was
\* sent for it, totalHealing = 1 and totalFailed is unchanged.
C2_RetriesThenHeals ==
    \A id \in DOMAIN jobs :
        /\ FailedInARow(id, 1) => jobs[id].status = "pending" /\ jobs[id].retryCount = 1
        /\ FailedInARow(id, 2) => jobs[id].status = "pending" /\ jobs[id].retryCount = 2
        /\ FailedInARow(id, 3) =>
              /\ jobs[id].status = "healing"
              /\ healingSent[id] = 1
              /\ jobMetrics.totalHealing = 1
              /\ jobMetrics.totalFailed = 0

Escalated(jobId) ==
    \E id \in DOMAIN tasks :
        /\ tasks[id].jobId = jobId
        /\ tasks[id].strategy = "escalate_to_agent"
        /\ tasks[id].status = "escalated"

\* C3: when the handler of a job throws on every delivery and both processors
\* keep working off their queues, some healing task of that job eventually is
\* in strategy escalate_to_agent with status escalated.
C3_PersistentFailureEscalates ==
    \A n \in 1..MaxJobs : (JobId(n) \in DOMAIN jobs) ~> Escalated(JobId(n))

----------------------------------------------------------------------------
(* Claims about healing tasks (under SpecHeal) *)

Terminal(task) == task.status \in {"resolved", "escalated"}

\* C4: once a healing task stored in the Self-Healer is resolved or escalated,
\* no step changes its status, a redelivered or duplicate message of the task
\* included.
C4_TerminalIsFinal ==
    [][\A id \in DOMAIN tasks :
           Terminal(tasks[id]) => tasks'[id].status = tasks[id].status]_vars

\* C5: whenever the strategy stored for a healing task changes, it changes to
\* the successor of the strategy it had in the escalation graph, with attempts
\* 0 and maxAttempts the configured attempts of the new strategy.
C5_StrategyFollowsGraph ==
    [][\A id \in DOMAIN tasks :
           tasks'[id].strategy # tasks[id].strategy =>
               /\ tasks'[id].strategy = STRATEGY_CONFIGS[tasks[id].strategy].nextStrategy
               /\ tasks'[id].attempts = 0
               /\ tasks'[id].maxAttempts = STRATEGY_CONFIGS[tasks'[id].strategy].maxAttempts]_vars

\* C6: a step in which attemptHealing executes escalate_to_agent for a task
\* leaves the task escalated and sends no message of that task to the healing
\* queue, whatever the task's maxAttempts.
C6_EscalationIsFinal ==
    [][\A id \in TaskIds :
           Count(executed', <<id, "escalate_to_agent">>)
               > Count(executed, <<id, "escalate_to_agent">>) =>
               /\ tasks'[id].status = "escalated"
               /\ \A m \in HEALING_QUEUE' \ HEALING_QUEUE : m.id # id]_vars

\* the strategies a task starting in retry_with_backoff goes through while
\* its executions fail, up to the one that succeeds
FailingPath ==
    <<"retry_with_backoff", "clear_cache_retry", "switch_endpoint", "reduce_batch_size",
      "notify_and_skip">>

\* C7: a task that starts in retry_with_backoff with maxAttempts 5 and whose
\* executions fail (the task of a worker error) has each strategy of the path
\* executed at most its configured number of times, 5, 2, 3, 3 and 1, exactly
\* that often once it is past the strategy, and once notify_and_skip resolved
\* it, skipped:{id} is stored and nothing was escalated.
C7_AttemptsAlongThePath ==
    \A id \in DOMAIN tasks :
        tasks[id].jobId = WorkerErrorJobId =>
            /\ \A i \in 1..Len(FailingPath) :
                  /\ Count(executed, <<id, FailingPath[i]>>)
                        <= STRATEGY_CONFIGS[FailingPath[i]].maxAttempts
                  /\ \A j \in 1..Len(FailingPath) :
                        (i < j /\ tasks[id].strategy = FailingPath[j]) =>
                            Count(executed, <<id, FailingPath[i]>>)
                                = STRATEGY_CONFIGS[FailingPath[i]].maxAttempts
            /\ (tasks[id].strategy = "notify_and_skip" /\ tasks[id].status = "resolved") =>
                  /\ <<"skipped", id>> \in HEALING_KV
                  /\ healMetrics.escalations = 0

----------------------------------------------------------------------------
(* Full syncs that overlap: RepoSyncEngine.triggerFullSync step by step.   *)
(* The engine runs one call at a time up to an await of a queue send; a    *)
(* second request is delivered while the first is suspended there.         *)

\* `if (this.inProgress)` at the head of triggerFullSync
rejectedWhileInProgress_never(flag) == FALSE

rejectedWhileInProgress(flag) == flag

returnsSuccess_flagKept(c, call) ==
    /\ lastFullSync' = TRUE
    /\ inProgress' = inProgress
    /\ calls' = [calls EXCEPT ![c] = [call EXCEPT !.at = "returned", !.status = 200]]
    /\ response' = [op |-> "triggerFullSync", success |-> TRUE,
                    repos |-> Len(BLACKROAD_REPOS)]

\* the end of triggerFullSync: lastFullSync is set, inProgress cleared, the
\* success response returned
returnsSuccess(c, call) ==
    /\ lastFullSync' = TRUE
    /\ inProgress' = FALSE
    /\ calls' = [calls EXCEPT ![c] = [call EXCEPT !.at = "returned", !.status = 200]]
    /\ response' = [op |-> "triggerFullSync", success |-> TRUE,
                    repos |-> Len(BLACKROAD_REPOS)]

\* triggerFullSync from its first line to the 409 response, or to the await of
\* the first send
beginFullSync(c) ==
    LET call == [calls[c] EXCEPT !.overlapped = {d \in Calls : calls[d].at = "sending"}]
    IN  /\ calls[c].at = "idle"
        /\ IF rejectedWhileInProgress(inProgress)
           THEN /\ calls' = [calls EXCEPT ![c] = [call EXCEPT !.at = "returned", !.status = 409]]
                /\ response' = [op |-> "triggerFullSync", success |-> FALSE,
                                message |-> "Sync already in progress"]
                /\ UNCHANGED <<inProgress, lastFullSync>>
           ELSE IF Len(BLACKROAD_REPOS) = 0
                THEN returnsSuccess(c, call)
                ELSE /\ inProgress' = TRUE
                     /\ calls' = [calls EXCEPT ![c] = [call EXCEPT !.at = "sending", !.next = 1]]
                     /\ UNCHANGED <<response, lastFullSync>>
        /\ UNCHANGED <<coordVars, healerVars, repos, lastCohesivenessCheck, kvVars, queueVars,
                       envVars, histVars>>

\* the loop in triggerFullSync: the send the call awaits completes, and the
\* call goes on to the await of the next send or to its return
resumeFullSync(c) ==
    LET i == calls[c].next
        task == ScrapeTask(Min(FreeScrapeIds), FullName(BLACKROAD_REPOS[i]), "full", "normal")
        call == [calls[c] EXCEPT !.sent = @ \cup {task}]
    IN  /\ calls[c].at = "sending"
        /\ FreeScrapeIds # {}
        /\ SCRAPE_QUEUE' = SCRAPE_QUEUE \cup {task}
        /\ IF i = Len(BLACKROAD_REPOS)
           THEN returnsSuccess(c, call)
           ELSE /\ calls' = [calls EXCEPT ![c] = [call EXCEPT !.next = i + 1]]
                /\ UNCHANGED <<response, lastFullSync, inProgress>>
        /\ UNCHANGED <<coordVars, healerVars, repos, lastCohesivenessCheck, kvVars, JOBS_QUEUE,
                       HEALING_QUEUE, envVars, histVars>>

\* POST /sync/full reaches the engine
FullSyncRequested == \E c \in Calls : beginFullSync(c)

\* a send of a suspended call completes
FullSyncResumed == \E c \in Calls : resumeFullSync(c)

NextSync == FullSyncRequested \/ FullSyncResumed \/ ScrapeUnchanged

SpecSync == Init /\ [][NextSync]_vars

----------------------------------------------------------------------------
(* Claims about full syncs (under SpecSync) *)

\* C11: a triggerFullSync call delivered while another is suspended at a
\* scrape-queue send returns the 409 conflict and enqueues no scrape task, and
\* the call it overlapped returns success; once both have returned, the scrape
\* tasks enqueued by the two are exactly those of the first, one per known
\* short name.
C11_OverlapIsRejected ==
    \A second \in Calls : \A first \in calls[second].overlapped :
        /\ calls[second].status = 409
        /\ calls[second].sent = {}
        /\ calls[first].at = "returned" =>
              /\ calls[first].status = 200
              /\ calls[first].sent \cup calls[second].sent = calls[first].sent
              /\ {t.repoFullName : t \in calls[first].sent} =
                     {FullName(BLACKROAD_REPOS[i]) : i \in DOMAIN BLACKROAD_REPOS}

\* the second call was rejected while the first was suspended, and the first
\* has returned success since
C11_Witness ==
    \E second \in Calls : \E first \in calls[second].overlapped :
        /\ calls[second].status = 409
        /\ calls[first].status = 200
        /\ calls[first].sent # {}

\* the full names of the known repositories
KnownFullNames == {FullName(BLACKROAD_REPOS[i]) : i \in DOMAIN BLACKROAD_REPOS}

\* C12: a triggerFullSync call that returned success enqueued exactly one
\* scrape task per known short name, each with scrapeType full and priority
\* normal, and lastFullSync is set; inProgress is false whenever no call is
\* between its first line and its return.
C12_OneTaskPerKnownRepo ==
    /\ \A c \in Calls :
          calls[c].status = 200 =>
              /\ Cardinality(calls[c].sent) = Len(BLACKROAD_REPOS)
              /\ {t.repoFullName : t \in calls[c].sent} = KnownFullNames
              /\ \A t \in calls[c].sent : t.scrapeType = "full" /\ t.priority = "normal"
              /\ lastFullSync
    /\ (\A c \in Calls : calls[c].at # "sending") => ~inProgress

\* a call has returned success while every scrape task it enqueued is still in
\* the scrape queue, none of them scraped
C12_Witness ==
    \E c \in Calls :
        /\ calls[c].status = 200
        /\ calls[c].sent # {}
        /\ calls[c].sent \subseteq SCRAPE_QUEUE
        /\ ~inProgress
        /\ scraped = {}

----------------------------------------------------------------------------
(* Claims about the status of a job (under Spec) *)

\* the changes of status the progression pending, running, then completed /
\* failed / healing allows, with the reopening failed -> healing -> pending
MonotoneMoves ==
    { <<"pending", "running">>, <<"running", "completed">>, <<"running", "failed">>,
      <<"running", "healing">>, <<"failed", "healing">>, <<"healing", "pending">> }

\* C13: every change of a job's status that the job processor and the healing
\* loop report to the coordinator is one of pending -> running, running ->
\* completed / failed / healing, failed -> healing, healing -> pending; no job
\* goes from running to pending, from completed to running or from healing to
\* running.
C13_StatusIsMonotone == \A m \in moves : <<m[2], m[3]>> \in MonotoneMoves

----------------------------------------------------------------------------
(* The coordinator over time: jobs are created, patched through            *)
(* PUT /api/jobs/:id and cleaned up while the clock advances.              *)

\* the clock advances HoursPerTick hours at a time, up to MaxHours
HoursPerTick == 12
MaxHours == 36

\* status changes to completed or failed that PUT requests make
MaxPatches == 3

\* 24 * 60 * 60 * 1000 ms, in hours
CleanupAgeHours == 24

\* the bodies of the PUT requests: a status, a completedAt (the time 0), or both
Patches ==
    {[status |-> st] : st \in {"completed", "failed"}}
        \cup {[completedAt |-> 0], [status |-> "completed", completedAt |-> 0]}

\* PUT /api/jobs/:id with a body
UpdateJobRequest ==
    \E id \in DOMAIN jobs, updates \in Patches :
        LET c == updateJob(Coordinator, id, updates)
        IN  /\ jobMetrics.totalCompleted + jobMetrics.totalFailed < MaxPatches
            /\ BecomesCoordinator(c)
            /\ moves' = moves \cup statusMoves(Coordinator, id, updates)
            /\ response' = [op |-> "updateJob", success |-> TRUE, job |-> c.jobs[id]]
            /\ UNCHANGED <<healerVars, engineVars, kvVars, queueVars, envVars, syncVars,
                           scraped, fails, healingSent, executed>>

\* the time cleanup compares with the cutoff: completedAt when the job has
\* one, else updatedAt
effectiveCompletion(job) == IF job.completedAt # NoTime THEN job.completedAt ELSE job.updatedAt

cleaned_atCutoff(c) ==
    LET cutoffTime == now - CleanupAgeHours
    IN  { id \in DOMAIN c.jobs :
            /\ c.jobs[id].status \in {"completed", "failed"}
            /\ effectiveCompletion(c.jobs[id]) <= cutoffTime }

cleaned_oneAtATime(c) ==
    LET cutoffTime == now - CleanupAgeHours
        old == { id \in DOMAIN c.jobs :
                   /\ c.jobs[id].status \in {"completed", "failed"}
                   /\ effectiveCompletion(c.jobs[id]) < cutoffTime }
    IN  IF old = {} THEN {} ELSE {CHOOSE id \in old : TRUE}

\* JobCoordinator.cleanup(): the ids it deletes from the coordinator c
cleaned(c) ==
    LET cutoffTime == now - CleanupAgeHours
    IN  { id \in DOMAIN c.jobs :
            /\ c.jobs[id].status \in {"completed", "failed"}
            /\ effectiveCompletion(c.jobs[id]) < cutoffTime }

\* JobCoordinator.cleanup(): the coordinator after it
cleanup(c) ==
    [ jobs |-> [id \in DOMAIN c.jobs \ cleaned(c) |-> c.jobs[id]], metrics |-> c.metrics ]

\* POST /cleanup on the coordinator; at, repeated and before are history: the
\* time of the call, whether the response before it was that of a cleanup at
\* the same time, and the cleaned of that response
Cleanup ==
    LET c == cleanup(Coordinator)
    IN  /\ BecomesCoordinator(c)
        /\ response' = [op |-> "cleanup", success |-> TRUE,
                        cleaned |-> Cardinality(cleaned(Coordinator)),
                        remaining |-> Cardinality(DOMAIN c.jobs), at |-> now,
                        repeated |-> response.op = "cleanup" /\ response.at = now,
                        before |-> IF response.op = "cleanup" /\ response.at = now
                                   THEN response.cleaned ELSE 0]
        /\ UNCHANGED <<healerVars, engineVars, kvVars, queueVars, envVars, syncVars, histVars>>

\* time passes
Tick ==
    /\ now + HoursPerTick <= MaxHours
    /\ now' = now + HoursPerTick
    /\ UNCHANGED <<coordVars, healerVars, engineVars, kvVars, queueVars, MAX_RETRY_ATTEMPTS,
                   SELF_HEAL_ENABLED, remote, syncVars, response, histVars>>

\* POST /api/jobs with the body {type: 'sync_content'}
CreateSyncJob ==
    /\ jobMetrics.totalCreated < MaxCreated
    /\ FreeJobIdsIn(World) # {}
    /\ createJob([id |-> NoJobId, type |-> "sync_content", priority |-> "normal",
                  payload |-> Context(NoValue, 0), maxRetries |-> 0])
    /\ UNCHANGED <<healerVars, engineVars, kvVars, SCRAPE_QUEUE, HEALING_QUEUE, envVars,
                   syncVars, scraped, executed>>

InitCoord ==
    /\ InitCoordinator /\ InitHealer /\ InitEngine /\ InitQueues /\ InitHistory /\ InitClock
    /\ MAX_RETRY_ATTEMPTS = DefaultMaxRetryAttempts
    /\ SELF_HEAL_ENABLED = "true"
    /\ response = [op |-> "none"]
    /\ remote = [r \in RepoNames |-> CompleteStructure]

NextCoord == CreateSyncJob \/ UpdateJobRequest \/ Cleanup \/ Tick

SpecCoord == InitCoord /\ [][NextCoord]_vars

----------------------------------------------------------------------------
(* Claims about the coordinator over time (under SpecCoord) *)

\* history: the status of the job has been completed at some point
EverCompleted(id) == \E m \in moves : m[1] = id /\ m[3] = "completed"

\* C14: for every job in the coordinator, completedAt is set if and only if
\* the job's status has been completed at some point, and a completedAt that is
\* set is not earlier than createdAt, whatever patches updateJob was given.
C14_CompletedAtIffCompleted ==
    \A id \in DOMAIN jobs :
        /\ jobs[id].completedAt # NoTime <=> EverCompleted(id)
        /\ jobs[id].completedAt # NoTime => jobs[id].completedAt >= jobs[id].createdAt

\* hours from the job's completedAt, or from its updatedAt when it has no
\* completedAt, to now
HoursSinceCompletion(job) ==
    now - (IF job.completedAt # NoTime THEN job.completedAt ELSE job.updatedAt)

\* C15: after cleanup at time T a job stored before the call is still stored
\* if and only if its status is not completed or failed, or its completedAt
\* (its updatedAt when it has none) is no more than 24 hours before T; cleaned
\* is the number of jobs removed and remaining the number still stored.
C15_CleanupKeepsRecent ==
    [][ Cleanup =>
          /\ \A id \in DOMAIN jobs :
                id \in DOMAIN jobs' <=>
                    \/ jobs[id].status \notin {"completed", "failed"}
                    \/ HoursSinceCompletion(jobs[id]) <= 24
          /\ DOMAIN jobs' \subseteq DOMAIN jobs
          /\ \A id \in DOMAIN jobs' : jobs'[id] = jobs[id]
          /\ response'.cleaned = Cardinality(DOMAIN jobs \ DOMAIN jobs')
          /\ response'.remaining = Cardinality(DOMAIN jobs') ]_vars

\* a cleanup has just removed one job and kept one that completed or failed
\* exactly 24 hours before
C15_Witness ==
    /\ response.op = "cleanup" /\ response.at = now
    /\ response.cleaned = 1 /\ response.remaining = 1
    /\ \E id \in DOMAIN jobs :
          /\ jobs[id].status \in {"completed", "failed"}
          /\ HoursSinceCompletion(jobs[id]) = 24

\* C16: a cleanup that follows another cleanup with no other operation and no
\* clock advance in between returns cleaned = 0 and leaves the job map and the
\* metrics as they were.
C16_SecondCleanupIsNoOp ==
    [][ (Cleanup /\ response.op = "cleanup" /\ response.at = now) =>
          /\ response'.cleaned = 0
          /\ jobs' = jobs
          /\ jobMetrics' = jobMetrics
          /\ response'.remaining = response.remaining ]_vars

\* the second of two cleanups in a row has returned cleaned = 0, the first
\* having removed a job and kept another
C16_Witness ==
    /\ response.op = "cleanup" /\ response.repeated
    /\ response.before = 1
    /\ response.cleaned = 0
    /\ response.remaining = 1

----------------------------------------------------------------------------
(* Listing jobs: JobCoordinator.listJobs over the job maps createJob and   *)
(* updateJob can leave.                                                    *)

\* jobs in the coordinator when it is asked for a list
MaxListed == 3

\* the limit of a request that carries one is at most MaxLimit
MaxLimit == 2

\* parseInt(url.searchParams.get('limit') || '100') of a request without limit
DefaultLimit == 100

\* const priorityOrder
priorityOrder == [critical |-> 0, high |-> 1, normal |-> 2, low |-> 3]

sortsBefore_oldestFirst(a, b) ==
    LET pDiff == priorityOrder[a.priority] - priorityOrder[b.priority]
    IN  IF pDiff # 0 THEN pDiff < 0
        ELSE IF a.createdAt - b.createdAt # 0 THEN a.createdAt - b.createdAt < 0
        ELSE a.id[2] < b.id[2]

\* the comparator of jobs.sort is negative for (a, b); jobs it gives 0 for
\* stay in the order of the map, taken here to be the order of their ids
sortsBefore(a, b) ==
    LET pDiff == priorityOrder[a.priority] - priorityOrder[b.priority]
    IN  IF pDiff # 0 THEN pDiff < 0
        ELSE IF b.createdAt - a.createdAt # 0 THEN b.createdAt - a.createdAt < 0
        ELSE a.id[2] < b.id[2]

\* jobs.sort(...): the jobs of the set S as the sorted array; the job at
\* index i is the one that i - 1 jobs sort before
sort(S) ==
    [i \in 1..Cardinality(S) |->
        CHOOSE a \in S : Cardinality({b \in S \ {a} : sortsBefore(b, a)}) = i - 1]

\* array.slice(0, limit) for a limit that is not negative
slice(array, limit) == SubSeq(array, 1, IF limit < Len(array) THEN limit ELSE Len(array))

\* JobCoordinator.listJobs(url): the body of its response; a filter the URL
\* does not carry is NoValue
listJobs(c, status, type, limit) ==
    LET all == {c.jobs[id] : id \in DOMAIN c.jobs}
        byStatus == IF status # NoValue THEN {j \in all : j.status = status} ELSE all
        byType == IF type # NoValue THEN {j \in byStatus : j.type = type} ELSE byStatus
        listed == slice(sort(byType), limit)
    IN  [ jobs |-> listed, total |-> Cardinality(DOMAIN c.jobs), filtered |-> Len(listed),
          metrics |-> c.metrics ]

\* GET /jobs on the coordinator; status, type and limit of the request are
\* kept with the response
ListJobs ==
    \E status \in {NoValue, "completed"}, type \in {NoValue, "notify"},
       limit \in (0..MaxLimit) \cup {DefaultLimit} :
        /\ response' = [op |-> "listJobs", status |-> status, type |-> type, limit |-> limit,
                        body |-> listJobs(Coordinator, status, type, limit)]
        /\ UNCHANGED <<coordVars, healerVars, engineVars, kvVars, queueVars, envVars, syncVars,
                       histVars>>

\* the jobs a coordinator can hold: created at 0 or a tick later with any
\* priority, as a pending or completed notify job or a completed sync_content
\* job
ListedJobs(id) ==
    { [Job(id, st[1], priority, Context(NoValue, 0), 0, DefaultMaxRetryAttempts, 0)
          EXCEPT !.createdAt = createdAt, !.status = st[2], !.completedAt = st[3]] :
        priority \in DOMAIN priorityOrder, createdAt \in {0, HoursPerTick},
        st \in { <<"notify", "pending", NoTime>>, <<"notify", "completed", HoursPerTick>>,
                 <<"sync_content", "completed", HoursPerTick>> } }

InitList ==
    /\ now = HoursPerTick
    /\ InitHealer /\ InitEngine /\ InitQueues /\ InitHistory
    /\ updating = EmptyMap
    /\ \E n \in 0..MaxListed :
          /\ jobs \in {f \in [{JobId(i) : i \in 1..n} -> UNION {ListedJobs(JobId(i)) : i \in 1..n}] :
                          \A id \in DOMAIN f : f[id].id = id}
          /\ jobMetrics = [totalCreated |-> n,
                           totalCompleted |-> Cardinality({id \in DOMAIN jobs :
                                                            jobs[id].status = "completed"}),
                           totalFailed |-> 0, totalHealing |-> 0]
    /\ MAX_RETRY_ATTEMPTS = DefaultMaxRetryAttempts
    /\ SELF_HEAL_ENABLED = "true"
    /\ response = [op |-> "none"]
    /\ remote = [r \in RepoNames |-> CompleteStructure]

NextList == ListJobs

SpecList == InitList /\ [][NextList]_vars

----------------------------------------------------------------------------
(* Claims about listing jobs (under SpecList) *)

\* the jobs of the coordinator that match the filters of the last request
Matching ==
    { j \in {jobs[id] : id \in DOMAIN jobs} :
        /\ response.status # NoValue => j.status = response.status
        /\ response.type # NoValue => j.type = response.type }

\* a comes no later than b: a lower priority rank, or the same rank and a
\* createdAt that is not earlier
NotAfter(a, b) ==
    \/ priorityOrder[a.priority] < priorityOrder[b.priority]
    \/ /\ priorityOrder[a.priority] = priorityOrder[b.priority]
       /\ a.createdAt >= b.createdAt

\* C17: listJobs with limit N returns at most N jobs, all matching the status
\* and type filters, ordered by priority rank (critical, high, normal, low)
\* and by createdAt descending within a rank; they are the first N of the
\* matching jobs in that order (all of them when there are fewer), and the
\* response carries the metrics of the coordinator.
C17_ListIsFilteredSortedCut ==
    response.op = "listJobs" =>
        LET listed == response.body.jobs
            returned == {listed[i] : i \in DOMAIN listed}
        IN  /\ Len(listed) <= response.limit
            /\ Cardinality(returned) = Len(listed)
            /\ returned \subseteq Matching
            /\ Len(listed) < response.limit => returned = Matching
            /\ \A i, k \in DOMAIN listed : i < k => NotAfter(listed[i], listed[k])
            /\ \A a \in returned, b \in Matching \ returned : NotAfter(a, b)
            /\ response.body.metrics = jobMetrics

\* three jobs are stored and two match both filters of a request with limit
\* 1; the one listed has the lower rank
C17_Witness ==
    /\ response.op = "listJobs" /\ response.limit = 1
    /\ response.status # NoValue /\ response.type # NoValue
    /\ response.body.total = 3
    /\ Cardinality(Matching) = 2
    /\ Len(response.body.jobs) = 1
    /\ \E b \in Matching :
          priorityOrder[response.body.jobs[1].priority] < priorityOrder[b.priority]

----------------------------------------------------------------------------
(* Jobs under at-least-once delivery: a message the job processor has      *)
(* processed and acknowledged can be delivered again.                      *)

\* completions the coordinator counts
MaxCompleted == 3

\* a delivery of a job message that is not the last one of that message
JobCompletedAndRedelivered ==
    \E message \in JOBS_QUEUE :
        /\ jobMetrics.totalCompleted < MaxCompleted
        /\ JobSucceedsFirst(message)

NextAtLeastOnce == Next \/ JobCompletedAndRedelivered

SpecAtLeastOnce == Init /\ [][NextAtLeastOnce]_vars

\* the job ids whose status has been completed
CompletedIds == {m[1] : m \in {n \in moves : n[3] = "completed"}}

\* C18: a second delivery of a job message that was processed to completion
\* leaves the coordinator's counters as the first left them: totalCompleted
\* never exceeds the number of distinct job ids that were completed.
C18_CompletedOncePerJob == jobMetrics.totalCompleted <= Cardinality(CompletedIds)

----------------------------------------------------------------------------
(* Queue sends that fail: env.JOBS_QUEUE.send inside createJob and          *)
(* env.HEALING_QUEUE.send inside attemptHealing throw.                      *)

\* JobCoordinator.createJob when JOBS_QUEUE.send throws: the job is in the
\* map and counted, nothing is sent, the request ends with the error
createJobSendThrows(body) ==
    LET job == newJob(body)
    IN  /\ jobs' = Put(jobs, job.id, job)
        /\ jobMetrics' = [jobMetrics EXCEPT !.totalCreated = @ + 1]
        /\ updating' = updating
        /\ response' = [op |-> "createJob", success |-> FALSE, error |-> "Internal error"]
        /\ moves' = {m \in moves : m[1] # job.id}
        /\ UNCHANGED <<JOBS_QUEUE, fails, healingSent>>

\* SelfHealer.processHealingTask(task) when the HEALING_QUEUE.send of the
\* failure branch throws: the world as the call leaves it. The task stored at
\* the start is the object attemptHealing works on
processHealingTaskSendThrows(w, task, random) ==
    LET stored == [w EXCEPT !.tasks = Put(@, task.id, task)]
        attempting == [task EXCEPT !.status = "attempting", !.attempts = @ + 1]
        strategy == attempting.strategy
        stats == IF strategy \in DOMAIN stored.strategies
                 THEN stored.strategies ELSE Put(stored.strategies, strategy, NoStats)
        w1 == [stored EXCEPT !.metrics.totalAttempts = @ + 1,
                             !.strategies = [stats EXCEPT ![strategy].attempts = @ + 1]]
        done == executeStrategy(w1, attempting, random)
        failed == afterFailure([done.w EXCEPT !.strategies[strategy].failures = @ + 1],
                               done.task, STRATEGY_CONFIGS[strategy])
    IN  [ sends |-> ~done.success /\ failed.task.status = "pending",
          w |-> [failed.w EXCEPT !.HEALING_QUEUE = done.w.HEALING_QUEUE,
                                 !.tasks = Put(@, task.id, failed.task)] ]

\* POST /api/jobs while the job queue refuses the send
CreateJobSendFails ==
    /\ jobMetrics.totalCreated < MaxCreated
    /\ FreeJobIdsIn(World) # {}
    /\ createJobSendThrows([id |-> NoJobId, type |-> "sync_content", priority |-> "normal",
                            payload |-> Context(NoValue, 0), maxRetries |-> 0])
    /\ UNCHANGED <<healerVars, engineVars, kvVars, SCRAPE_QUEUE, HEALING_QUEUE, envVars,
                   syncVars, scraped, executed>>

\* processHealingQueue, one message, while the healing queue refuses the send
\* of the failure branch: POST /heal ends with the error, message.retry()
HealingSendFails ==
    \E message \in HEALING_QUEUE, random \in BOOLEAN :
        LET result == processHealingTaskSendThrows(World, message, random)
        IN  /\ SELF_HEAL_ENABLED = "true"
            /\ healMetrics.totalAttempts < MaxHealAttempts
            /\ IdsAtHand(World, message)
            /\ message.strategy # "switch_endpoint" => random
            /\ result.sends
            /\ Becomes(result.w)
            /\ Ran(message)
            /\ response' = [op |-> "processHealingTask", success |-> FALSE,
                            error |-> "Internal error"]
            /\ UNCHANGED <<coordVars, engineVars, envVars, syncVars, moves, scraped, fails,
                           healingSent>>

NextSendFails ==
    \/ CreateSyncJob \/ CreateJobSendFails
    \/ WorkerError \/ ProcessHealing \/ HealingSendFails

SpecSendFails == Init /\ [][NextSendFails]_vars

\* C19: a createJob or processHealingTask call that ends with an error
\* response because a queue send inside it failed leaves the component as it
\* was: the job map and totalCreated for createJob; the stored tasks, the
\* metrics and the per-strategy stats for processHealingTask.
C19_ErrorLeavesStateUnchanged ==
    [][ /\ CreateJobSendFails => jobs' = jobs /\ jobMetrics' = jobMetrics
        /\ HealingSendFails =>
              tasks' = tasks /\ healMetrics' = healMetrics /\ strategies' = strategies ]_vars

----------------------------------------------------------------------------
(* Claims about jobs that fail validation (under Spec) *)

\* C20: a delivery of a scrape_repo job whose payload has no repoName is never
\* answered by a retry: the job processor neither writes retryCount + 1 to the
\* coordinator nor leaves the message for redelivery, whatever the message's
\* retryCount and maxRetries.
C20_ValidationFailureNotRetried ==
    [][ \A message \in JOBS_QUEUE :
            (message.type = "scrape_repo" /\ message.payload.repoName = NoValue)
                => ~JobRetries(message) ]_vars

----------------------------------------------------------------------------
(* Claims about the healer when self-healing is disabled (under Spec) *)

\* C21: while SELF_HEAL_ENABLED is not 'true', processHealingTask stores the
\* incoming task with status escalated and nothing else about it changed
\* (attempts, strategy), leaves the healer's metrics and per-strategy stats as
\* they were, and sends nothing to the job, scrape or healing queue.
C21_DisabledOnlyEscalates ==
    [][ (ProcessHealing /\ SELF_HEAL_ENABLED # "true") =>
          /\ \E message \in HEALING_QUEUE :
                tasks' = Put(tasks, message.id, [message EXCEPT !.status = "escalated"])
          /\ healMetrics' = healMetrics
          /\ strategies' = strategies
          /\ JOBS_QUEUE' = JOBS_QUEUE
          /\ SCRAPE_QUEUE' = SCRAPE_QUEUE
          /\ HEALING_QUEUE' = HEALING_QUEUE ]_vars

\* with self-healing disabled, a task of a failed job has been handed to the
\* healer and is stored escalated with no attempt made
C21_Witness ==
    /\ SELF_HEAL_ENABLED # "true"
    /\ response.op = "processHealingTask"
    /\ \E id \in DOMAIN tasks :
          /\ tasks[id].status = "escalated"
          /\ tasks[id].attempts = 0
          /\ tasks[id].strategy = "retry_with_backoff"
    /\ healMetrics.totalAttempts = 0

----------------------------------------------------------------------------
(* The coordinator's create and read requests: POST /api/jobs with bodies that
   carry some of the fields of a job, GET /api/jobs/:id *)

\* the bodies of POST /api/jobs: the id is left out (NoJobId) or the caller's
\* own; type, priority, payload and maxRetries are given or left out, and
\* maxRetries is given as 0 too; a body may also carry a status and a
\* retryCount, which are fields of Partial<AgentJob>
Bodies ==
    { id @@ type @@ priority @@ maxRetries @@ progress :
        id \in {[id |-> NoJobId], [id |-> JobId(1)]},
        type \in {[id |-> NoJobId],
                  [type |-> "scrape_repo", payload |-> Context("blackroad-os", 0)]},
        priority \in {[id |-> NoJobId], [priority |-> "high"]},
        maxRetries \in {[id |-> NoJobId]} \cup {[maxRetries |-> n] : n \in {0, MaxBodyRetries}},
        progress \in {[id |-> NoJobId], [status |-> "completed", retryCount |-> 3]} }

\* POST /api/jobs
PostJob ==
    \E body \in Bodies :
        /\ jobMetrics.totalCreated < MaxCreated
        /\ FreeJobIdsIn(World) # {}
        /\ createJob(body)
        /\ UNCHANGED <<healerVars, engineVars, kvVars, SCRAPE_QUEUE, HEALING_QUEUE, envVars,
                       syncVars, scraped, executed>>

\* JobCoordinator.getJob
getJob(c, id) ==
    IF id \notin DOMAIN c.jobs
    THEN [status |-> 404, error |-> "Job not found"]
    ELSE [status |-> 200, job |-> c.jobs[id]]

\* GET /api/jobs/:id; the response keeps the response before it when that
\* answered a createJob
GetJob ==
    \E id \in JobIds :
        /\ response.op # "getJob"
        /\ response' = [ op |-> "getJob", id |-> id, result |-> getJob(Coordinator, id),
                         after |-> IF response.op = "createJob" THEN response
                                   ELSE [op |-> response.op] ]
        /\ UNCHANGED <<coordVars, healerVars, engineVars, kvVars, queueVars, envVars,
                       syncVars, histVars>>

NextCreate == PostJob \/ GetJob \/ JobCompleted \/ JobRetried

SpecCreate == InitCoord /\ [][NextCreate]_vars

----------------------------------------------------------------------------
(* Claims about createJob and getJob (under SpecCreate) *)

\* the response is getJob's for the id of the job that the createJob right
\* before it returned
GotAfterCreate ==
    /\ response.op = "getJob"
    /\ response.after.op = "createJob"
    /\ response.id = response.after.job.id

\* C22: getJob(id) issued right after createJob(partial) returns exactly the
\* record createJob stored and returned; the type, priority, payload and
\* maxRetries that partial supplied are the record's, for every value
\* including maxRetries = 0, and the other fields have their defaults: status
\* pending, retryCount 0, healingAttempts 0.
C22_GetReturnsWhatCreateStored ==
    GotAfterCreate =>
        LET partial == response.after.body
            supplied(f) == f \in DOMAIN partial
        IN  /\ response.result.status = 200
            /\ response.result.job = response.after.job
            /\ \A f \in {"type", "priority", "payload", "maxRetries"} :
                  supplied(f) => response.result.job[f] = partial[f]
            /\ response.result.job.status = "pending"
            /\ response.result.job.retryCount = 0
            /\ response.result.job.healingAttempts = 0

----------------------------------------------------------------------------
(* Claims about the attempts of healing tasks (under SpecHeal) *)

\* C23: every healing task stored in the healer has attempts <= maxAttempts,
\* in every reachable state, for tasks that enter with attempts 0 and
\* maxAttempts >= 1 and with healing messages delivered again after
\* message.retry().
C23_AttemptsWithinMax ==
    \A id \in DOMAIN tasks : tasks[id].attempts <= tasks[id].maxAttempts

\* a task has used up its attempts in a strategy, and deliveries of its
\* messages have executed that strategy more often than maxAttempts
C23_Witness ==
    \E id \in DOMAIN tasks :
        /\ tasks[id].attempts = tasks[id].maxAttempts
        /\ Count(executed, <<id, tasks[id].strategy>>) > tasks[id].maxAttempts

----------------------------------------------------------------------------
(* The coordinator with deletions: DELETE /jobs/:id and GET /metrics of the
   Durable Object beside the requests of SpecCoord *)

\* JobCoordinator.deleteJob: the status of its response and the coordinator
\* as it leaves it
deleteJob(c, id) ==
    IF id \notin DOMAIN c.jobs
    THEN [status |-> 404, c |-> c]
    ELSE [status |-> 200, c |-> [c EXCEPT !.jobs = Delete(@, id)]]

\* DELETE /jobs/:id
DeleteJob ==
    \E id \in JobIds :
        LET deleted == deleteJob(Coordinator, id)
        IN  /\ BecomesCoordinator(deleted.c)
            /\ response' = [op |-> "deleteJob", id |-> id, status |-> deleted.status]
            /\ UNCHANGED <<healerVars, engineVars, kvVars, queueVars, envVars, syncVars,
                           histVars>>

JobStatuses == {"pending", "running", "completed", "failed", "healing"}

\* JobCoordinator.getMetrics: the counters, the per-status counts of the jobs
\* in the map and their number
getMetrics(c) ==
    [ metrics |-> c.metrics,
      statusCounts |-> [s \in JobStatuses |->
                            Cardinality({id \in DOMAIN c.jobs : c.jobs[id].status = s})],
      totalJobs |-> Cardinality(DOMAIN c.jobs) ]

NextCrud == CreateSyncJob \/ UpdateJobRequest \/ DeleteJob \/ Cleanup \/ Tick

SpecCrud == InitCoord /\ [][NextCrud]_vars

----------------------------------------------------------------------------
(* Claims about the coordinator's counters (under SpecCrud) *)

\* C24: whenever the coordinator's job map is empty, the counters getMetrics
\* reports (totalCreated, totalCompleted, totalFailed, totalHealing and every
\* per-status count) are zero, after any sequence of createJob, updateJob,
\* deleteJob and cleanup.
C24_EmptyMapZeroCounters ==
    jobs = EmptyMap =>
        LET reported == getMetrics(Coordinator)
        IN  /\ reported.metrics.totalCreated = 0
            /\ reported.metrics.totalCompleted = 0
            /\ reported.metrics.totalFailed = 0
            /\ reported.metrics.totalHealing = 0
            /\ \A s \in JobStatuses : reported.statusCounts[s] = 0

----------------------------------------------------------------------------
(* PUT /api/jobs/:id for any id and with any status in the body *)

\* the bodies of these PUT requests: each status, no status at all, and the
\* status completed together with a completedAt
StatusPatches ==
    {[status |-> st] : st \in JobStatuses}
        \cup {[priority |-> "high"], [status |-> "completed", completedAt |-> 0]}

\* PUT /api/jobs/:id with the body updates: 404 for an id the map lacks; the
\* requests are followed up to MaxPatches counted updates and MaxPatches
\* different changes of status
PutJobWith(id, updates) ==
    LET c == updateJob(Coordinator, id, updates)
    IN  /\ jobMetrics.totalCompleted + jobMetrics.totalFailed + jobMetrics.totalHealing
              < MaxPatches
        /\ Cardinality(moves) < MaxPatches
        /\ BecomesCoordinator(c)
        /\ moves' = moves \cup statusMoves(Coordinator, id, updates)
        /\ response' = [op |-> "updateJob", id |-> id,
                        status |-> IF id \in DOMAIN jobs THEN 200 ELSE 404]
        /\ UNCHANGED <<healerVars, engineVars, kvVars, queueVars, envVars, syncVars,
                       scraped, fails, healingSent, executed>>

PutJob == \E id \in JobIds, updates \in StatusPatches : PutJobWith(id, updates)

\* time passes once
FirstTick == now = 0 /\ Tick

NextPut == CreateSyncJob \/ PutJob \/ FirstTick

SpecPut == InitCoord /\ [][NextPut]_vars

----------------------------------------------------------------------------
(* Claims about updateJob (under SpecPut) *)

\* the counter updateJob adds to when the status becomes st
CounterOf(st) ==
    CASE st = "completed" -> "totalCompleted"
      [] st = "failed" -> "totalFailed"
      [] st = "healing" -> "totalHealing"
      [] OTHER -> NoValue

\* C25: updateJob(id, patch) whose patch.status differs from the job's status
\* adds 1 to the one counter of the new status (completed: totalCompleted, and
\* the job gets a completedAt; failed: totalFailed; healing: totalHealing) and
\* changes no other counter; a patch with the job's status, with the status
\* pending or running, or without a status changes no counter; every
\* successful update sets updatedAt to the time of the update; for an unknown
\* id the answer is not-found and neither the job map nor a counter changes.
C25_UpdateCountsStatusChange ==
    [][ \A id \in JobIds, patch \in StatusPatches :
          PutJobWith(id, patch) =>
              IF id \notin DOMAIN jobs
              THEN /\ response'.status = 404
                   /\ jobs' = jobs
                   /\ jobMetrics' = jobMetrics
              ELSE LET changes == "status" \in DOMAIN patch /\ patch.status # jobs[id].status
                       counted == IF changes THEN CounterOf(patch.status) ELSE NoValue
                   IN  /\ response'.status = 200
                       /\ \A counter \in DOMAIN jobMetrics :
                             jobMetrics'[counter] =
                                 jobMetrics[counter] + (IF counter = counted THEN 1 ELSE 0)
                       /\ counted = "totalCompleted" =>
                             jobs'[id].completedAt =
                                 IF "completedAt" \in DOMAIN patch THEN patch.completedAt ELSE now
                       /\ jobs'[id].updatedAt = now
                       /\ \A other \in DOMAIN jobs \ {id} : jobs'[other] = jobs[other] ]_vars

\* a job went to completed and then to healing some time after it was
\* created: each of the two counters is 1, totalFailed is 0 and updatedAt is
\* the time of the last update
C25_Witness ==
    /\ response.op = "updateJob" /\ response.status = 200
    /\ jobMetrics.totalCompleted = 1 /\ jobMetrics.totalHealing = 1
    /\ jobMetrics.totalFailed = 0
    /\ jobs[response.id].status = "healing"
    /\ jobs[response.id].completedAt # NoTime
    /\ jobs[response.id].updatedAt = now
    /\ jobs[response.id].updatedAt > jobs[response.id].createdAt

\* C26: each successful createJob stores one job, with status pending and
\* retryCount 0 whatever status or retryCount the request carries, sends one
\* message carrying that job to the job queue and adds exactly 1 to
\* totalCreated; no other counter changes.
C26_CreateStoresSendsCounts ==
    [][ PostJob =>
          LET job == response'.job
          IN  /\ response'.success
              /\ job.status = "pending" /\ job.retryCount = 0
              /\ jobs' = Put(jobs, job.id, job)
              /\ job \in JOBS_QUEUE'
              /\ JOBS_QUEUE' \ JOBS_QUEUE \subseteq {job}
              /\ jobMetrics' = [jobMetrics EXCEPT !.totalCreated = @ + 1] ]_vars

\* createJob answered a request whose body carried status completed and
\* retryCount 3: the job is stored pending with retryCount 0 and is on the
\* job queue
C26_Witness ==
    /\ response.op = "createJob" /\ response.success
    /\ "status" \in DOMAIN response.body /\ response.body.status = "completed"
    /\ response.body.retryCount = 3
    /\ jobs[response.job.id] = response.job
    /\ response.job.status = "pending" /\ response.job.retryCount = 0
    /\ response.job \in JOBS_QUEUE
    /\ jobMetrics.totalCreated = 1

\* C27: totalCreated equals the number of distinct job ids ever stored by the
\* coordinator (under SpecCreate no job is removed, so these are the ids of
\* the map), and a createJob whose body carries the id of a stored job leaves
\* that job's status, retryCount and result as they were.
C27_CreateNeverReplaces ==
    [][ /\ jobMetrics'.totalCreated = Cardinality(DOMAIN jobs')
        /\ \A id \in DOMAIN jobs :
              (PostJob /\ response'.job.id = id) =>
                  /\ jobs'[id].status = jobs[id].status
                  /\ jobs'[id].retryCount = jobs[id].retryCount
                  /\ jobs'[id].result = jobs[id].result ]_vars

----------------------------------------------------------------------------
(* Claims about the messages of a healing task (under SpecHeal) *)

\* the messages on the healing queue that carry the task id
InFlight(id) == {message \in HEALING_QUEUE : message.id = id}

\* C28: a task that a failed attempt left non-terminal (stored pending, in the
\* same strategy or switched to the next) has exactly one message pending on
\* the healing queue, and no task id ever has more than one message in
\* flight: the healer's own re-enqueue and the processor's message.retry() do
\* not add up to two deliverable copies.
C28_OneMessagePerTask ==
    /\ \A message \in HEALING_QUEUE : Cardinality(InFlight(message.id)) <= 1
    /\ \A id \in DOMAIN tasks :
          tasks[id].status = "pending" => Cardinality(InFlight(id)) = 1

----------------------------------------------------------------------------
(* Claims about single attempts of the healer (under SpecHeal) *)

\* the step is one attempt of the healer on the task: a delivery of its
\* message or a manual trigger, with self-healing enabled
Attempt(task, random) ==
    /\ SELF_HEAL_ENABLED = "true"
    /\ \/ task \in HEALING_QUEUE /\ ProcessHealingOf(task, random)
       \/ FreeTaskIds # {} /\ task \in ManualTasks /\ TriggerHealingOf(task, random)

\* the tasks an attempt can be made on
Attemptable == HEALING_QUEUE \cup (IF FreeTaskIds # {} THEN ManualTasks ELSE {})

\* C29: metrics.escalations and metrics.failedResolutions each grow by
\* exactly 1 in an attempt that leaves the task in status escalated and by 0
\* in every other attempt, for tasks that arrive at escalate_to_agent with
\* maxAttempts 1 and with maxAttempts 3 alike.
C29_OneCountPerEscalation ==
    [][ \A task \in Attemptable, random \in BOOLEAN :
          Attempt(task, random) =>
              LET events == IF tasks'[task.id].status = "escalated" THEN 1 ELSE 0
              IN  /\ healMetrics'.escalations = healMetrics.escalations + events
                  /\ healMetrics'.failedResolutions = healMetrics.failedResolutions + events
      ]_vars

\* C30: the resolution persisted on a task at the end of an attempt records
\* the strategy executed in that attempt and the number of that attempt, which
\* is at least 1, also when the attempt failed and switched the task to the
\* next strategy; it records neither the successor strategy nor the reset
\* counter 0.
C30_ResolutionRecordsTheAttempt ==
    [][ \A task \in Attemptable, random \in BOOLEAN :
          Attempt(task, random) =>
              LET resolution == tasks'[task.id].resolution
              IN  /\ resolution.strategy = task.strategy
                  /\ resolution.attemptNumber = task.attempts + 1
                  /\ resolution.attemptNumber >= 1 ]_vars

----------------------------------------------------------------------------
(* Claims about the strategies that retry the original operation (under
   SpecHeal) *)

RetryingStrategies == {"retry_with_backoff", "clear_cache_retry", "reduce_batch_size"}

\* C31: an attempt in retry_with_backoff, clear_cache_retry or
\* reduce_batch_size sends to the job queue one job whose id is the task's
\* jobId, with type sync_content, priority high and retryCount = the attempts
\* of the task in this attempt, and succeeds, when the task's jobId is
\* non-empty and not 'worker-error'; otherwise it sends nothing to the job
\* queue and the attempt fails.
C31_RetryRequeuesOriginalJob ==
    [][ \A task \in Attemptable, random \in BOOLEAN :
          (Attempt(task, random) /\ task.strategy \in RetryingStrategies) =>
              IF task.jobId # NoJobId /\ task.jobId # WorkerErrorJobId
              THEN /\ response'.success
                   /\ \E job \in JOBS_QUEUE' :
                         /\ job.id = task.jobId
                         /\ job.type = "sync_content"
                         /\ job.priority = "high"
                         /\ job.status = "pending"
                         /\ job.retryCount = task.attempts + 1
                         /\ JOBS_QUEUE' \ JOBS_QUEUE \subseteq {job}
              ELSE /\ ~response'.success
                   /\ JOBS_QUEUE' = JOBS_QUEUE ]_vars

\* a task with a jobId was resolved by clear_cache_retry, and the job with
\* that id is on the job queue with retryCount 1
C31_Witness ==
    /\ response.op = "processHealingTask" /\ response.success
    /\ \E id \in DOMAIN tasks :
          /\ tasks[id].status = "resolved"
          /\ tasks[id].strategy = "clear_cache_retry"
          /\ tasks[id].jobId # WorkerErrorJobId
          /\ \E job \in JOBS_QUEUE :
                /\ job.id = tasks[id].jobId
                /\ job.type = "sync_content" /\ job.priority = "high"
                /\ job.retryCount = tasks[id].attempts

----------------------------------------------------------------------------
(* Claims about failed scrapes (under SpecScrape) *)

\* C32: for every failed delivery of a scrape task the scrape processor
\* sends exactly one healing task (strategy retry_with_backoff, attempts 0,
\* maxAttempts 3, status pending, jobId scrape-{task.id}) and asks for the
\* scrape message to be delivered again instead of acking it; the engine's
\* state and the repo KV are as before the delivery.
C32_FailedScrapeSendsOneTask ==
    [][ \A message \in SCRAPE_QUEUE :
          ScrapeThrow(message) =>
              /\ \E task \in HEALING_QUEUE' \ HEALING_QUEUE :
                    /\ HEALING_QUEUE' = HEALING_QUEUE \cup {task}
                    /\ task.strategy = "retry_with_backoff"
                    /\ task.attempts = 0
                    /\ task.maxAttempts = 3
                    /\ task.status = "pending"
                    /\ task.jobId = ScrapeJobId(message.id)
              /\ message \in SCRAPE_QUEUE'
              /\ SCRAPE_QUEUE' = SCRAPE_QUEUE
              /\ repos' = repos
              /\ lastFullSync' = lastFullSync
              /\ lastCohesivenessCheck' = lastCohesivenessCheck
              /\ REPOS_KV' = REPOS_KV ]_vars

\* a scrape failed: its healing task is on the healing queue, its message is
\* still on the scrape queue, and neither the engine nor the KV has the
\* repository
C32_Witness ==
    \E message \in SCRAPE_QUEUE, task \in HEALING_QUEUE :
        /\ task.jobId = ScrapeJobId(message.id)
        /\ task.maxAttempts = 3 /\ task.attempts = 0
        /\ message.repoFullName \notin DOMAIN repos
        /\ RepoKey(message.repoFullName) \notin DOMAIN REPOS_KV

----------------------------------------------------------------------------
(* Claims about the number of attempts on a healing task (under SpecHeal,
   where the only deliveries are those the code asks for) *)

\* the attempts made on the task so far, over all strategies
AttemptsOn(id) ==
    LET RECURSIVE sum(_)
        sum(S) == IF S = {} THEN 0
                  ELSE LET s == CHOOSE s \in S : TRUE
                       IN  Count(executed, <<id, s>>) + sum(S \ {s})
    IN  sum(Strategies)

\* the attempt budgets along the escalation path from retry_with_backoff
PathBudget == 5 + 2 + 3 + 3 + 1 + 1

\* C33: with self-healing enabled and no duplicate deliveries, every healing
\* task reaches resolved or escalated after finitely many attempts: a
\* strategy is left as soon as attempts >= maxAttempts after a failure, so the
\* strategy a task is in has been attempted at most maxAttempts times, a task
\* in a terminal status is attempted no more, and the attempts on one task
\* number at most the sum of the budgets along its path (at most 15).
C33_AttemptsWithinBudget ==
    SELF_HEAL_ENABLED = "true" =>
        \A id \in DOMAIN tasks :
            /\ Count(executed, <<id, tasks[id].strategy>>) <= tasks[id].maxAttempts
            /\ AttemptsOn(id) <= PathBudget
            /\ tasks[id].status \in {"resolved", "escalated"} => InFlight(id) = {}

\* C34: with a scraper that returns repo data, the scrape queue drains:
\* processing a scrape task for repository R successfully removes its message
\* and sends no new scrape task, for R or for any other repository, so each
\* successful delivery leaves one message fewer on the scrape queue.
C34_ScrapeSendsNoScrape ==
    [][ \A message \in SCRAPE_QUEUE :
          ScrapeData(message) =>
              /\ SCRAPE_QUEUE' = SCRAPE_QUEUE \ {message}
              /\ Cardinality(SCRAPE_QUEUE') < Cardinality(SCRAPE_QUEUE) ]_vars

----------------------------------------------------------------------------
(* Full syncs whose scrape-queue send fails *)

\* the send a triggerFullSync call awaits rejects: the call ends with the
\* error there, without reaching the lines that clear inProgress and set
\* lastFullSync
sendThrows(c) ==
    /\ calls[c].at = "sending"
    /\ calls' = [calls EXCEPT ![c] = [@ EXCEPT !.at = "threw", !.status = 500]]
    /\ response' = [op |-> "triggerFullSync", success |-> FALSE, error |-> "Internal error"]
    /\ UNCHANGED <<coordVars, healerVars, engineVars, inProgress, kvVars, queueVars,
                   envVars, histVars>>

\* a send of a suspended call fails
FullSyncSendFails == \E c \in Calls : sendThrows(c)

NextSyncFails == FullSyncRequested \/ FullSyncResumed \/ FullSyncSendFails \/ ScrapeUnchanged

SpecSyncFails == Init /\ [][NextSyncFails]_vars

----------------------------------------------------------------------------
(* Claims about full syncs that fail (under SpecSyncFails) *)

\* C35: after any triggerFullSync call has finished, with success, with the
\* conflict or with the error of a failing scrape-queue send, inProgress is
\* false: it is true only while a call is between its start and its return,
\* and a call that overlaps no other call is never answered with the
\* conflict.
C35_InProgressOnlyDuringCall ==
    /\ inProgress => \E c \in Calls : calls[c].at = "sending"
    /\ \A c \in Calls : calls[c].status = 409 => calls[c].overlapped # {}

----------------------------------------------------------------------------
(* The self-healing check of the cron handler: triggerSelfHealingCheck *)

\* jobs the check is followed for, beside the one map with more running jobs
\* than a listing returns
MaxChecked == 3

\* passes of the check that are followed
MaxPasses == 2

\* staleThreshold = 10 * 60 * 1000 ms, in minutes
StaleThresholdMinutes == 10

\* jobAge > staleThreshold, the clock counting hours
olderThanThreshold(job) == (now - job.updatedAt) * 60 > StaleThresholdMinutes

\* the healing task the check sends for a stale job; its context has no
\* repoName
StaleJobTask(id, job) == NewHealingTask(id, job.id, "stale_job", NoValue, "full_reset", 1)

\* triggerSelfHealingCheck(env): the healing queue after it. The jobs are
\* those GET /jobs?status=running returns; crypto.randomUUID() gives the k-th
\* listed job an id beyond every id in use
triggerSelfHealingCheck(queue) ==
    IF SELF_HEAL_ENABLED # "true"
    THEN queue
    ELSE LET jobsData == listJobs(Coordinator, "running", NoValue, DefaultLimit)
             used == {m.id : m \in queue} \cup DOMAIN tasks \cup {0}
             base == CHOOSE x \in used : \A y \in used : y <= x
         IN  queue \cup {StaleJobTask(base + k, jobsData.jobs[k]) :
                            k \in {i \in DOMAIN jobsData.jobs :
                                      olderThanThreshold(jobsData.jobs[i])}}

\* the cron trigger of every 5 minutes
SelfHealingCheck ==
    LET pass == IF response.op = "triggerSelfHealingCheck" THEN response.pass ELSE 0
    IN  /\ pass < MaxPasses
        /\ HEALING_QUEUE' = triggerSelfHealingCheck(HEALING_QUEUE)
        /\ response' = [op |-> "triggerSelfHealingCheck", pass |-> pass + 1]
        /\ UNCHANGED <<coordVars, healerVars, engineVars, kvVars, JOBS_QUEUE, SCRAPE_QUEUE,
                       envVars, syncVars, histVars>>

\* a pending, running or failed sync_content job created at 0 and updated at
\* 0 or a tick later
CheckedJobs(id) ==
    { [Job(id, "sync_content", "normal", Context(NoValue, 0), 0, DefaultMaxRetryAttempts, 0)
          EXCEPT !.createdAt = 0, !.updatedAt = updatedAt, !.status = status] :
        status \in {"pending", "running", "failed"}, updatedAt \in {0, HoursPerTick} }

\* the coordinator holds up to MaxChecked jobs, or one running job more than
\* a listing returns
InitCheck ==
    /\ now = HoursPerTick
    /\ InitHealer /\ InitEngine /\ InitQueues /\ InitHistory
    /\ updating = EmptyMap
    /\ \E n \in (0..MaxChecked) \cup {DefaultLimit + 1} :
          /\ IF n <= MaxChecked
             THEN jobs \in {f \in [{JobId(i) : i \in 1..n} ->
                                      UNION {CheckedJobs(JobId(i)) : i \in 1..n}] :
                               \A id \in DOMAIN f : f[id].id = id}
             ELSE jobs = [id \in {JobId(i) : i \in 1..n} |->
                             [Job(id, "sync_content", "normal", Context(NoValue, 0), 0,
                                  DefaultMaxRetryAttempts, 0)
                                 EXCEPT !.createdAt = 0, !.updatedAt = 0, !.status = "running"]]
          /\ jobMetrics = [totalCreated |-> n, totalCompleted |-> 0,
                           totalFailed |-> Cardinality({id \in DOMAIN jobs :
                                                         jobs[id].status = "failed"}),
                           totalHealing |-> 0]
    /\ MAX_RETRY_ATTEMPTS = DefaultMaxRetryAttempts
    /\ SELF_HEAL_ENABLED \in {"true", "false"}
    /\ response = [op |-> "none"]
    /\ remote = [r \in RepoNames |-> CompleteStructure]

NextCheck == SelfHealingCheck \/ Tick

SpecCheck == InitCheck /\ [][NextCheck]_vars

----------------------------------------------------------------------------
(* Claims about the self-healing check (under SpecCheck) *)

\* C36: a pass of the self-healing check, which runs only when
\* SELF_HEAL_ENABLED is 'true', sends exactly one healing task with strategy
\* full_reset, attempts 0, maxAttempts 1 and jobId = the job's id for every
\* job of the coordinator that is running and was updated more than 10
\* minutes ago, and none for any other job; it changes no job.
C36_OneTaskPerStaleJob ==
    [][ SelfHealingCheck =>
          LET sent == HEALING_QUEUE' \ HEALING_QUEUE
              stale(id) == /\ SELF_HEAL_ENABLED = "true"
                           /\ jobs[id].status = "running"
                           /\ olderThanThreshold(jobs[id])
          IN  /\ \A id \in DOMAIN jobs :
                    Cardinality({task \in sent : task.jobId = id}) = IF stale(id) THEN 1 ELSE 0
              /\ \A task \in sent :
                    /\ task.jobId \in DOMAIN jobs
                    /\ task.strategy = "full_reset"
                    /\ task.attempts = 0 /\ task.maxAttempts = 1
                    /\ task.status = "pending"
              /\ jobs' = jobs /\ jobMetrics' = jobMetrics ]_vars

----------------------------------------------------------------------------
(* attemptHealing step by step: the healer serves other requests while an
   attempt waits for its backoff sleep, a queue send or a KV call *)

\* the strategy of the task waits for a timer, a queue or a KV namespace
\* before attemptHealing counts the outcome
suspends(task) ==
    LET context == task.issue.context
        requeues == task.jobId # NoJobId /\ task.jobId # WorkerErrorJobId
    IN  \/ task.strategy \in {"retry_with_backoff", "notify_and_skip", "escalate_to_agent"}
        \/ task.strategy = "clear_cache_retry" /\ (context.repoName # NoValue \/ requeues)
        \/ task.strategy = "reduce_batch_size" /\ requeues
        \/ task.strategy = "full_reset" /\ context.repoName # NoValue

\* attemptHealing up to the switch statement: the task as this.tasks holds it
\* while the strategy waits
attempting(task) == [task EXCEPT !.status = "attempting", !.attempts = @ + 1]

\* the healer's attempt on the task of this message is waiting in its strategy
Suspended(message) ==
    /\ message.id \in DOMAIN tasks
    /\ tasks[message.id] = attempting(message)

\* POST /heal for a message of the healing queue, up to the first wait inside
\* the strategy: the task is stored and counted as an attempt
BeginAttemptOf(message) ==
    LET strategy == message.strategy
        stats == IF strategy \in DOMAIN strategies
                 THEN strategies ELSE Put(strategies, strategy, NoStats)
    IN  /\ SELF_HEAL_ENABLED = "true"
        /\ suspends(message)
        /\ message.id \in DOMAIN tasks => tasks[message.id].status # "attempting"
        /\ healMetrics.totalAttempts < MaxHealAttempts
        /\ tasks' = Put(tasks, message.id, attempting(message))
        /\ healMetrics' = [healMetrics EXCEPT !.totalAttempts = @ + 1]
        /\ strategies' = [stats EXCEPT ![strategy].attempts = @ + 1]
        /\ Ran(message)
        /\ UNCHANGED <<coordVars, engineVars, kvVars, queueVars, envVars, syncVars, response,
                       moves, scraped, fails, healingSent>>

BeginAttempt == \E message \in HEALING_QUEUE : BeginAttemptOf(message)

\* the rest of attemptHealing, from the switch statement on, for the task
\* this.tasks holds as attempting: the resolution and the world after it
resumeAttempt(w, task, random) ==
    LET strategy == task.strategy
        done == executeStrategy(w, task, random)
        after == IF done.success
                 THEN [task |-> [done.task EXCEPT !.status = "resolved"],
                       w |-> [done.w EXCEPT !.metrics.successfulResolutions = @ + 1,
                                            !.strategies[strategy].successes = @ + 1]]
                 ELSE afterFailure([done.w EXCEPT !.strategies[strategy].failures = @ + 1],
                                   done.task, STRATEGY_CONFIGS[strategy])
        resolution == [strategy |-> after.task.strategy, success |-> done.success,
                       attemptNumber |-> after.task.attempts]
        final == [after.task EXCEPT !.resolution = resolution]
    IN  [resolution |-> resolution, w |-> [after.w EXCEPT !.tasks = Put(@, final.id, final)]]

\* the wait of the strategy ends: attemptHealing runs to its end, POST /heal
\* answers, and processHealingQueue acks or retries the message
ResumeAttemptOf(message, random) ==
    LET result == resumeAttempt(World, tasks[message.id], random)
    IN  /\ Suspended(message)
        /\ IdsAtHand(World, message)
        /\ Becomes(IF result.resolution.success
                   THEN [result.w EXCEPT !.HEALING_QUEUE = @ \ {message}]
                   ELSE result.w)
        /\ response' = [op |-> "processHealingTask", success |-> result.resolution.success]
        /\ UNCHANGED <<coordVars, engineVars, envVars, syncVars, histVars>>

ResumeAttempt == \E message \in HEALING_QUEUE : ResumeAttemptOf(message, TRUE)

\* a delivery the healer works off without waiting inside the strategy, or
\* with self-healing disabled
ProcessHealingAtOnce ==
    \E message \in HEALING_QUEUE, random \in BOOLEAN :
        /\ SELF_HEAL_ENABLED # "true" \/ ~suspends(message)
        /\ message.id \in DOMAIN tasks => tasks[message.id].status # "attempting"
        /\ ProcessHealingOf(message, random)

\* a manual trigger whose task does not wait inside its strategy
TriggerHealingAtOnce ==
    /\ FreeTaskIds # {}
    /\ \E task \in ManualTasks, random \in BOOLEAN :
          /\ SELF_HEAL_ENABLED # "true" \/ ~suspends(task)
          /\ TriggerHealingOf(task, random)

NextInterleaved ==
    \/ WorkerError
    \/ BeginAttempt \/ ResumeAttempt
    \/ ProcessHealingAtOnce \/ TriggerHealingAtOnce

SpecInterleaved == Init /\ [][NextInterleaved]_vars

----------------------------------------------------------------------------
(* Claims about the healer's counters (under SpecInterleaved) *)

\* the sum of one counter over the strategies the healer has statistics for
SumOfStats(stats, counter) ==
    LET RECURSIVE sum(_)
        sum(S) == IF S = {} THEN 0
                  ELSE LET s == CHOOSE s \in S : TRUE
                       IN  stats[s][counter] + sum(S \ {s})
    IN  sum(DOMAIN stats)

CountersConsistent(metrics, stats) ==
    /\ metrics.totalAttempts = SumOfStats(stats, "attempts")
    /\ \A s \in DOMAIN stats : stats[s].attempts = stats[s].successes + stats[s].failures
    /\ metrics.successfulResolutions = SumOfStats(stats, "successes")
    /\ metrics.successfulResolutions + metrics.failedResolutions <= metrics.totalAttempts

\* an attemptHealing runs to its end in this step
AttemptCompletes ==
    /\ SELF_HEAL_ENABLED = "true"
    /\ ResumeAttempt \/ ProcessHealingAtOnce \/ TriggerHealingAtOnce

\* C37: after every completed attemptHealing, attempts of other tasks waiting
\* in their strategies or not, the healer's counters are consistent:
\* totalAttempts is the sum of the strategies' attempts, every strategy has
\* attempts = successes + failures, successfulResolutions is the sum of the
\* strategies' successes, and successfulResolutions + failedResolutions <=
\* totalAttempts.
C37_CountersConsistent ==
    [][ AttemptCompletes => CountersConsistent(healMetrics', strategies') ]_vars

----------------------------------------------------------------------------
(* updateJob step by step: between this.jobs.get(id) and this.jobs.set(id,
   job) the call awaits request.json(), and the coordinator serves other
   requests meanwhile. One updateJob is followed at a time *)

\* PUT /jobs/:id up to the await of the request body: 404 for an id the map
\* lacks, else the call holds the job it read
UpdateJobBegins ==
    \E id \in JobIds :
        /\ updating = EmptyMap
        /\ jobMetrics.totalCompleted + jobMetrics.totalFailed < MaxPatches
        /\ IF id \notin DOMAIN jobs
           THEN /\ response' = [op |-> "updateJob", id |-> id, status |-> 404]
                /\ updating' = updating
           ELSE /\ updating' = Put(updating, id, jobs[id])
                /\ response' = response
        /\ UNCHANGED <<jobs, jobMetrics, healerVars, engineVars, kvVars, queueVars, envVars,
                       syncVars, histVars>>

\* the request body has arrived: the call counts the change of status, assigns
\* the updates to the job it holds and sets it in the map under its id
UpdateJobResumesWith(id, updates) ==
    LET held == [jobs |-> Put(jobs, id, updating[id]), metrics |-> jobMetrics]
        c == updateJob(held, id, updates)
    IN  /\ id \in DOMAIN updating
        /\ jobs' = c.jobs
        /\ jobMetrics' = c.metrics
        /\ updating' = Delete(updating, id)
        /\ moves' = moves \cup statusMoves(held, id, updates)
        /\ response' = [op |-> "updateJob", id |-> id, status |-> 200]
        /\ UNCHANGED <<healerVars, engineVars, kvVars, queueVars, envVars, syncVars,
                       scraped, fails, healingSent, executed>>

UpdateJobResumes == \E id \in JobIds, updates \in Patches : UpdateJobResumesWith(id, updates)

NextRace ==
    \/ CreateSyncJob \/ UpdateJobBegins \/ UpdateJobResumes
    \/ DeleteJob \/ Cleanup \/ Tick

SpecRace == InitCoord /\ [][NextRace]_vars

----------------------------------------------------------------------------
(* Claims about removed jobs (under SpecRace, where no job message leaves the
   job queue) *)

\* the job was created, and deleteJob or cleanup has removed it
Removed(id) ==
    /\ id \notin DOMAIN jobs
    /\ \E job \in JOBS_QUEUE : job.id = id

\* C38: an id that deleteJob or cleanup has removed from the job map stays
\* absent until a createJob supplies it, also when an updateJob for that id
\* had read the job before the removal and writes it back after: the
\* operations take effect as if executed one at a time.
C38_RemovedStaysAbsent ==
    [][ \A id \in JobIds :
          (Removed(id) /\ id \in DOMAIN jobs') =>
              (response'.op = "createJob" /\ response'.job.id = id) ]_vars

====
